---- MODULE Spec2Model ----
(***************************************************************************)
(* The nvgpu collector of node_exporter: nvgpuCollector.Update, one poll   *)
(* of the NVML device inventory, and the enum-to-label helpers it uses.    *)
(* Every call into NVML is one step of the poll; the driver's answer       *)
(* (status and value) is the input of that step. Every send `ch <-` is a   *)
(* step of its own: Update waits in it until the host takes the metric.    *)
(***************************************************************************)
EXTENDS FiniteSets, Integers, Sequences, TLC

(***************************************************************************)
(* Bounds of the model.                                                    *)
(***************************************************************************)
\* largest device count the driver reports
MaxDevices == 2
\* largest fan count a device reports
MaxFans == 2
\* how many calls of one run the driver may answer with a status other than SUCCESS
MaxFaults == 2
\* enum codes handed to the label helpers range over MinCode..MaxCode
MaxCode == 34

\* the largest device count of the runs of two scrapes in a row
MaxSeqDevices == 1
\* the largest CUDA major version the version query is answered with
MaxMajor == 12
MinCode == 0 - 3

(***************************************************************************)
(* NVML constants the collector refers to.                                 *)
(***************************************************************************)
SUCCESS == "SUCCESS"
ERROR_NOT_SUPPORTED == "ERROR_NOT_SUPPORTED"
ERROR_UNKNOWN == "ERROR_UNKNOWN"

BUS_TYPE_UNKNOWN == 0
BUS_TYPE_PCI == 1
BUS_TYPE_PCIE == 2
BUS_TYPE_FPCI == 3
BUS_TYPE_AGP == 4

CLOCK_GRAPHICS == 0
CLOCK_SM == 1
CLOCK_MEM == 2
CLOCK_VIDEO == 3
CLOCK_COUNT == 4

CLOCK_ID_CURRENT == 0
CLOCK_ID_APP_CLOCK_TARGET == 1
CLOCK_ID_APP_CLOCK_DEFAULT == 2
CLOCK_ID_CUSTOMER_BOOST_MAX == 3
CLOCK_ID_COUNT == 4

COMPUTEMODE_DEFAULT == 0
COMPUTEMODE_EXCLUSIVE_THREAD == 1
COMPUTEMODE_PROHIBITED == 2
COMPUTEMODE_EXCLUSIVE_PROCESS == 3

PSTATE_UNKNOWN == 32

FEATURE_DISABLED == 0

TEMPERATURE_GPU == 0
TEMPERATURE_COUNT == 1

(***************************************************************************)
(* strconv.Itoa and fmt's %d: the decimal text of an integer.              *)
(***************************************************************************)
DigitChar(d) ==
    CASE d = 0 -> "0" [] d = 1 -> "1" [] d = 2 -> "2" [] d = 3 -> "3"
      [] d = 4 -> "4" [] d = 5 -> "5" [] d = 6 -> "6" [] d = 7 -> "7"
      [] d = 8 -> "8" [] d = 9 -> "9"

RECURSIVE NatText(_)
NatText(n) == IF n < 10 THEN DigitChar(n) ELSE NatText(n \div 10) \o DigitChar(n % 10)

Itoa(n) == IF n < 0 THEN "-" \o NatText(0 - n) ELSE NatText(n)

(***************************************************************************)
(* The enum-to-label helpers.                                              *)
(***************************************************************************)
getBusTypeString(busT) ==
    CASE busT = BUS_TYPE_AGP -> "AGP"
      [] busT = BUS_TYPE_FPCI -> "FPCI"
      [] busT = BUS_TYPE_PCI -> "PCI"
      [] busT = BUS_TYPE_PCIE -> "PCIE"
      [] busT = BUS_TYPE_UNKNOWN -> "UNKNOWN"
      [] OTHER -> "UNKNOWN"

getClockTypeString(typeN) ==
    CASE typeN = CLOCK_GRAPHICS -> "GRAPHICS"
      [] typeN = CLOCK_SM -> "SM"
      [] typeN = CLOCK_MEM -> "MEM"
      [] typeN = CLOCK_VIDEO -> "VIDEO"
      [] OTHER -> "UNKNOWN"

getClockIDString(typeN) ==
    CASE typeN = CLOCK_ID_CURRENT -> "CURRENT"
      [] typeN = CLOCK_ID_APP_CLOCK_TARGET -> "APP CLOCK TARGET"
      [] typeN = CLOCK_ID_APP_CLOCK_DEFAULT -> "APP CLOCK DEFAULT"
      [] typeN = CLOCK_ID_CUSTOMER_BOOST_MAX -> "CUSTOMER BOOST MAX"
      [] OTHER -> "UNKNOWN"

getComputeModeString(modeN) ==
    CASE modeN = COMPUTEMODE_DEFAULT -> "DEFAULT"
      [] modeN = COMPUTEMODE_EXCLUSIVE_THREAD -> "EXCLUSIVE THREAD"
      [] modeN = COMPUTEMODE_PROHIBITED -> "PROHIBITED"
      [] modeN = COMPUTEMODE_EXCLUSIVE_PROCESS -> "EXCLUSIVE PROCESS"
      [] OTHER -> "UNKNOWN"

getPstatesString(stateN) ==
    IF PSTATE_UNKNOWN # stateN THEN "P" \o Itoa(stateN) ELSE "UNKNOWN"

getPersisModeString(stateN) ==
    IF stateN = FEATURE_DISABLED THEN "OFF" ELSE "ON"

getTemperatureSensorString(tempN) ==
    CASE tempN = TEMPERATURE_GPU -> "GPU"
      [] OTHER -> "UNKNOWN"

(***************************************************************************)
(* State.                                                                  *)
(***************************************************************************)
VARIABLES
    enableNVGPUSysInfo, \* --collector.nvgpu.sysinfo
    enableNVGPUInfo,    \* --collector.nvgpu.gpuinfo
    enableNVGPUFan,     \* --collector.nvgpu.faninfo
    variant,            \* which of the two Update bodies is built: "full" or "base"
    driverCount,        \* driver: number of devices present
    driverFans,         \* driver: number of fans of each device
    driverLacks,        \* driver: the optional queries its devices do not support
    faults,             \* driver: non-SUCCESS answers it may still give
    calls,              \* per poll: the NVML calls issued so far, in order, with their status
    pc,                 \* per poll: the NVML call Update issues next, its sends done
    frame,              \* per poll: the local variables of Update
    ch,                 \* per poll: the metrics the host has taken from ch so far
    sending,            \* per poll: the metrics of the sends `ch <-` Update is in, in order
    err,                \* per poll: the value Update returns
    mapFn,              \* label helper under evaluation
    mapIn,              \* its argument
    mapOut              \* its result

flags == <<enableNVGPUSysInfo, enableNVGPUInfo, enableNVGPUFan, variant>>
driver == <<driverCount, driverFans, driverLacks>>
helper == <<mapFn, mapIn, mapOut>>
vars == <<flags, driver, faults, calls, pc, frame, ch, sending, err, helper>>

\* the host may run two scrapes, hence two Update calls, at a time
Polls == {1, 2}

Statuses == {SUCCESS, ERROR_NOT_SUPPORTED, ERROR_UNKNOWN}

\* the queries whose capability a device may lack for good: the applications
\* clock of a domain, the clock of a (domain, id) pair, the enforced power limit
OptionalQueries ==
    {<<"GetApplicationsClock", <<t>>>> : t \in 0 .. CLOCK_COUNT - 1}
    \cup {<<"GetClock", <<t, tt>>>> : t \in 0 .. CLOCK_COUNT - 1, tt \in 0 .. CLOCK_ID_COUNT - 1}
    \cup {<<"GetEnforcedPowerLimit", << >>>>}

\* the capability sets a driver and its devices can lack: nothing, the
\* applications clocks, everything of the VIDEO domain, the APP_CLOCK_TARGET
\* clock of every domain, the enforced power limit, every optional query
Profiles ==
    { {},
      {q \in OptionalQueries : q[1] = "GetApplicationsClock"},
      {q \in OptionalQueries : q[1] # "GetEnforcedPowerLimit" /\ q[2][1] = CLOCK_VIDEO},
      {q \in OptionalQueries : q[1] = "GetClock" /\ q[2][2] = CLOCK_ID_APP_CLOCK_TARGET},
      {q \in OptionalQueries : q[1] = "GetEnforcedPowerLimit"},
      OptionalQueries }

\* the statuses the driver can answer the call op(arg) with: NOT_SUPPORTED for
\* a capability it lacks, else SUCCESS or, while it has faults left, an error
Answers(op, arg) ==
    IF <<op, arg>> \in driverLacks
    THEN {ERROR_NOT_SUPPORTED}
    ELSE IF faults = 0 THEN {SUCCESS}
    ELSE IF <<op, arg>> \in OptionalQueries THEN {SUCCESS, ERROR_UNKNOWN}
    ELSE Statuses

nil == [msg |-> "nil", ret |-> SUCCESS]

\* fmt.Errorf(msg, ..., nvml.ErrorString(ret))
Errorf(msg, ret) == [msg |-> msg, ret |-> ret]

NoDevice == <<"nvml", 0 - 1>>

\* the handle nvml.DeviceGetHandleByIndex(i) resolves
DeviceHandle(i) == <<"nvmlDevice", i>>

\* the value the driver answers a successful query with
Reading(op, d, arg) ==
    CASE op = "SystemGetCudaDriverVersion_v2" -> 12020
      [] op = "GetBusType" -> BUS_TYPE_PCIE
      [] op = "GetMinFanSpeed" -> 900
      [] op = "GetMaxFanSpeed" -> 3200
      [] op = "GetFanSpeed_v2" -> 40 + 10 * arg[1] + d[2]
      [] op = "GetApplicationsClock" -> 1000 + 100 * arg[1]
      [] op = "GetClock" -> 1000 + 100 * arg[1] + 10 * arg[2]
      [] op = "GetComputeMode" -> COMPUTEMODE_DEFAULT
      [] op = "GetPerformanceState" -> 2 + d[2]
      [] op = "GetPersistenceMode" -> 1
      [] op = "GetUtilizationRates.Gpu" -> 42
      [] op = "GetUtilizationRates.Memory" -> 17
      [] op = "GetTemperature" -> 60 + d[2]
      [] op = "GetPowerUsage" -> 75000
      [] op = "GetEnforcedPowerLimit" -> 250000
      [] op = "GetMemoryInfo.Total" -> 8192
      [] op = "GetMemoryInfo.Free" -> 6144
      [] op = "GetMemoryInfo.Used" -> 2048
      [] OTHER -> 0

TextReading(op, d) ==
    CASE op = "SystemGetDriverVersion" -> "535.104.05"
      [] op = "SystemGetNVMLVersion" -> "12.535.104.05"
      [] op = "GetUUID" -> "GPU-" \o Itoa(d[2])
      [] op = "GetName" -> "NVIDIA A100"
      [] OTHER -> ""

\* prometheus.MustNewConstMetric(desc, GaugeValue, val, labels...); dev is the
\* handle the value was read from
Metric(fam, val, labels, d) == [fam |-> fam, val |-> val, labels |-> labels, dev |-> d]

NewFrame ==
    [count |-> 0, devices |-> <<>>, i |-> 0, indexI |-> 0, fanNums |-> 0,
     minFanSpeed |-> 0, maxFanSpeed |-> 0, f |-> 0, t |-> 0, tt |-> 0,
     driverV |-> "", cudaV |-> "", uuid |-> "", name |-> ""]

\* Index counting from one
Index_OneBased(p) == Itoa(frame[p].indexI + 1)

\* Dev ranging over the devices from the last to the first
Dev_Reversed(p) == frame[p].devices[Len(frame[p].devices) - frame[p].indexI]

\* d and index of the running iteration of `for indexI, d := range devices`
Dev(p) == frame[p].devices[frame[p].indexI + 1]
Index(p) == Itoa(frame[p].indexI)

(***************************************************************************)
(* Where Update goes next: the first NVML call after each block.           *)
(***************************************************************************)
\* the temperature loop
TemperatureHead == IF 0 < TEMPERATURE_COUNT THEN "GetTemperature" ELSE "GetPowerUsage"

\* after the fan block: the clock loop, which only the full Update has
AfterFan ==
    IF variant = "full"
    THEN IF 0 < CLOCK_COUNT THEN "GetApplicationsClock" ELSE "GetComputeMode"
    ELSE TemperatureHead

\* AfterInfo without the test of the fan flag
AfterInfo_IgnoreFlag == "GetNumFans"

\* after the device-info block
AfterInfo == IF enableNVGPUFan THEN "GetNumFans" ELSE AfterFan

\* DeviceHead that waits past the last device instead of returning
DeviceHead_NoReturn(k, n) ==
    IF k < n THEN (IF enableNVGPUInfo THEN "GetUUID" ELSE AfterInfo) ELSE "blocked"

\* `for indexI, d := range devices` at position k of n devices; past the last
\* device Update returns nil and the deferred Shutdown runs
DeviceHead(k, n) ==
    IF k < n THEN (IF enableNVGPUInfo THEN "GetUUID" ELSE AfterInfo) ELSE "Shutdown"

\* after enumeration
AfterEnumerate(n) ==
    IF enableNVGPUSysInfo THEN "SystemGetDriverVersion" ELSE DeviceHead(0, n)

\* after power usage: the enforced limit, which only the full Update queries
AfterPowerUsage == IF variant = "full" THEN "GetEnforcedPowerLimit" ELSE "GetMemoryInfo"

(***************************************************************************)
(* Building blocks of the steps.                                           *)
(***************************************************************************)
\* one NVML call and the status the driver answered it with; Update comes
\* to the call when the sends before it are through
Call(p, op, d, arg, ret) ==
    /\ sending[p] = << >>
    /\ calls' = [calls EXCEPT ![p] = Append(@, [op |-> op, dev |-> d, arg |-> arg, ret |-> ret])]
    /\ faults' = IF ret = SUCCESS THEN faults ELSE faults - 1

\* ReturnErr without the deferred call: the error is returned at once
ReturnErr_NoDefer(p, e) ==
    /\ err' = [err EXCEPT ![p] = e]
    /\ pc' = [pc EXCEPT ![p] = "returned"]

\* return fmt.Errorf(...): the deferred Shutdown is what runs next
ReturnErr(p, e) ==
    /\ err' = [err EXCEPT ![p] = e]
    /\ pc' = [pc EXCEPT ![p] = "Shutdown"]

Goto(p, label) == pc' = [pc EXCEPT ![p] = label]

\* the statements `ch <- m1; ch <- m2; ...` that follow a call: Update goes
\* through them one by one, each waiting for the host to take the metric
Send(p, ms) == sending' = [sending EXCEPT ![p] = ms]

\* ch <- m: the host takes the metric Update is sending
ChanSend(p) ==
    /\ sending[p] # << >>
    /\ ch' = [ch EXCEPT ![p] = Append(@, Head(sending[p]))]
    /\ sending' = [sending EXCEPT ![p] = Tail(@)]
    /\ UNCHANGED <<flags, driver, faults, calls, pc, frame, err, helper>>

(***************************************************************************)
(* nvgpuCollector.Update, one step per NVML call and one per send.         *)
(***************************************************************************)
\* NvmlInit with the Shutdown deferred before the status is tested
NvmlInit_DeferFirst(p) ==
    /\ pc[p] = "Init"
    /\ \E ret \in Answers("Init", <<>>) :
         /\ Call(p, "Init", NoDevice, <<>>, ret)
         /\ IF ret # SUCCESS
            THEN ReturnErr(p, Errorf("unable to initialize NVML", ret))
            ELSE /\ Goto(p, "DeviceGetCount")
                 /\ UNCHANGED err
    /\ UNCHANGED <<flags, driver, frame, ch, sending, helper>>

\* ret := nvml.Init()
NvmlInit(p) ==
    /\ pc[p] = "Init"
    /\ \E ret \in Answers("Init", <<>>) :
         /\ Call(p, "Init", NoDevice, <<>>, ret)
         /\ IF ret # SUCCESS
            THEN /\ err' = [err EXCEPT ![p] = Errorf("unable to initialize NVML", ret)]
                 /\ Goto(p, "returned")
            ELSE /\ Goto(p, "DeviceGetCount")
                 /\ UNCHANGED err
    /\ UNCHANGED <<flags, driver, frame, ch, sending, helper>>

\* NvmlShutdown with its failure made the result of the poll
NvmlShutdown_Propagates(p) ==
    /\ pc[p] = "Shutdown"
    /\ \E ret \in Answers("Shutdown", <<>>) :
         /\ Call(p, "Shutdown", NoDevice, <<>>, ret)
         /\ err' = IF ret # SUCCESS
                   THEN [err EXCEPT ![p] = Errorf("failed to shutdown NVML", ret)]
                   ELSE err
    /\ Goto(p, "returned")
    /\ UNCHANGED <<flags, driver, frame, ch, sending, helper>>

\* the deferred func: ret := nvml.Shutdown(); a failure is only logged
NvmlShutdown(p) ==
    /\ pc[p] = "Shutdown"
    /\ \E ret \in Answers("Shutdown", <<>>) : Call(p, "Shutdown", NoDevice, <<>>, ret)
    /\ Goto(p, "returned")
    /\ UNCHANGED <<flags, driver, frame, ch, sending, err, helper>>

\* count, ret := nvml.DeviceGetCount()
DeviceGetCount(p) ==
    /\ pc[p] = "DeviceGetCount"
    /\ \E ret \in Answers("DeviceGetCount", <<>>) :
         /\ Call(p, "DeviceGetCount", NoDevice, <<>>, ret)
         /\ IF ret # SUCCESS
            THEN /\ ReturnErr(p, Errorf("unable to get device count", ret))
                 /\ UNCHANGED frame
            ELSE /\ frame' = [frame EXCEPT ![p].count = driverCount, ![p].i = 0]
                 /\ Goto(p, IF 0 < driverCount THEN "DeviceGetHandleByIndex"
                                               ELSE AfterEnumerate(0))
                 /\ UNCHANGED err
    /\ UNCHANGED <<flags, driver, ch, sending, helper>>

\* DeviceGetHandleByIndex leaving out a device it cannot resolve and going on
DeviceGetHandleByIndex_SkipFailed(p) ==
    /\ pc[p] = "DeviceGetHandleByIndex"
    /\ LET i == frame[p].i
           devices == Append(frame[p].devices, DeviceHandle(i))
       IN  \E ret \in Answers("DeviceGetHandleByIndex", <<i>>) :
             /\ Call(p, "DeviceGetHandleByIndex", NoDevice, <<i>>, ret)
             /\ frame' = [frame EXCEPT
                    ![p].devices = IF ret = SUCCESS THEN devices ELSE @,
                    ![p].i = i + 1]
             /\ Goto(p, IF i + 1 < frame[p].count
                        THEN "DeviceGetHandleByIndex"
                        ELSE AfterEnumerate(Len(frame'[p].devices)))
             /\ UNCHANGED err
    /\ UNCHANGED <<flags, driver, ch, sending, helper>>

\* d, ret := nvml.DeviceGetHandleByIndex(i); devices = append(devices, d)
DeviceGetHandleByIndex(p) ==
    /\ pc[p] = "DeviceGetHandleByIndex"
    /\ LET i == frame[p].i
           devices == Append(frame[p].devices, DeviceHandle(i))
       IN  \E ret \in Answers("DeviceGetHandleByIndex", <<i>>) :
             /\ Call(p, "DeviceGetHandleByIndex", NoDevice, <<i>>, ret)
             /\ IF ret # SUCCESS
                THEN /\ ReturnErr(p, Errorf("unable to get device at index", ret))
                     /\ UNCHANGED frame
                ELSE /\ frame' = [frame EXCEPT ![p].devices = devices, ![p].i = i + 1]
                     /\ Goto(p, IF i + 1 < frame[p].count
                                THEN "DeviceGetHandleByIndex"
                                ELSE AfterEnumerate(Len(devices)))
                     /\ UNCHANGED err
    /\ UNCHANGED <<flags, driver, ch, sending, helper>>

\* driverV, ret := nvml.SystemGetDriverVersion()
SystemGetDriverVersion(p) ==
    /\ pc[p] = "SystemGetDriverVersion"
    /\ \E ret \in Answers("SystemGetDriverVersion", <<>>) :
         /\ Call(p, "SystemGetDriverVersion", NoDevice, <<>>, ret)
         /\ IF ret # SUCCESS
            THEN /\ ReturnErr(p, Errorf("unable to Get NVIDIA System Driver Version", ret))
                 /\ UNCHANGED frame
            ELSE /\ frame' = [frame EXCEPT
                        ![p].driverV = TextReading("SystemGetDriverVersion", NoDevice)]
                 /\ Goto(p, "SystemGetCudaDriverVersion_v2")
                 /\ UNCHANGED err
    /\ UNCHANGED <<flags, driver, ch, sending, helper>>

\* Go's / and % on int: the quotient truncates toward zero
GoQuo(a, b) == IF a >= 0 THEN a \div b ELSE 0 - ((0 - a) \div b)
GoRem(a, b) == a - b * GoQuo(a, b)

\* CudaVersionString with the minor taken from the whole integer
CudaVersionString_NoRem(cudaVI) ==
    Itoa(GoQuo(cudaVI, 1000)) \o "." \o Itoa(GoQuo(cudaVI, 10))

\* fmt.Sprintf("%d.%d", cudaVI/1000, cudaVI%1000/10)
CudaVersionString(cudaVI) ==
    Itoa(GoQuo(cudaVI, 1000)) \o "." \o Itoa(GoQuo(GoRem(cudaVI, 1000), 10))

\* cudaVI, ret := nvml.SystemGetCudaDriverVersion_v2()
SystemGetCudaDriverVersion(p) ==
    /\ pc[p] = "SystemGetCudaDriverVersion_v2"
    /\ \E ret \in Answers("SystemGetCudaDriverVersion_v2", <<>>) :
         /\ Call(p, "SystemGetCudaDriverVersion_v2", NoDevice, <<>>, ret)
         /\ IF ret # SUCCESS
            THEN /\ ReturnErr(p, Errorf("unable to Get NVIDIA CUDA Driver Version", ret))
                 /\ UNCHANGED frame
            ELSE /\ frame' = [frame EXCEPT ![p].cudaV = CudaVersionString(
                        Reading("SystemGetCudaDriverVersion_v2", NoDevice, <<>>))]
                 /\ Goto(p, "SystemGetNVMLVersion")
                 /\ UNCHANGED err
    /\ UNCHANGED <<flags, driver, ch, sending, helper>>

\* SystemGetNVMLVersion going on to the devices when the version is not supported
SystemGetNVMLVersion_SoftSkip(p) ==
    /\ pc[p] = "SystemGetNVMLVersion"
    /\ \E ret \in Answers("SystemGetNVMLVersion", <<>>) :
         /\ Call(p, "SystemGetNVMLVersion", NoDevice, <<>>, ret)
         /\ IF ret \notin {SUCCESS, ERROR_NOT_SUPPORTED}
            THEN /\ ReturnErr(p, Errorf("unable to Get NVIDIA NVML Version", ret))
                 /\ UNCHANGED sending
            ELSE /\ Send(p, IF ret = SUCCESS
                            THEN << Metric("sysinfo", 1,
                                    <<frame[p].driverV, frame[p].cudaV,
                                      TextReading("SystemGetNVMLVersion", NoDevice)>>,
                                    NoDevice) >>
                            ELSE << >>)
                 /\ Goto(p, DeviceHead(0, Len(frame[p].devices)))
                 /\ UNCHANGED err
    /\ UNCHANGED <<flags, driver, frame, ch, helper>>

\* nvmlV, ret := nvml.SystemGetNVMLVersion(); ch <- gpuSysInfo
SystemGetNVMLVersion(p) ==
    /\ pc[p] = "SystemGetNVMLVersion"
    /\ \E ret \in Answers("SystemGetNVMLVersion", <<>>) :
         /\ Call(p, "SystemGetNVMLVersion", NoDevice, <<>>, ret)
         /\ IF ret # SUCCESS
            THEN /\ ReturnErr(p, Errorf("unable to Get NVIDIA NVML Version", ret))
                 /\ UNCHANGED sending
            ELSE /\ Send(p, << Metric("sysinfo", 1,
                        <<frame[p].driverV, frame[p].cudaV,
                          TextReading("SystemGetNVMLVersion", NoDevice)>>, NoDevice) >>)
                 /\ Goto(p, DeviceHead(0, Len(frame[p].devices)))
                 /\ UNCHANGED err
    /\ UNCHANGED <<flags, driver, frame, ch, helper>>

\* uuid, ret := d.GetUUID()
GetUUID(p) ==
    /\ pc[p] = "GetUUID"
    /\ \E ret \in Answers("GetUUID", <<>>) :
         /\ Call(p, "GetUUID", Dev(p), <<>>, ret)
         /\ IF ret # SUCCESS
            THEN /\ ReturnErr(p, Errorf("unable to get GPU UUID", ret))
                 /\ UNCHANGED frame
            ELSE /\ frame' = [frame EXCEPT ![p].uuid = TextReading("GetUUID", Dev(p))]
                 /\ Goto(p, "GetName")
                 /\ UNCHANGED err
    /\ UNCHANGED <<flags, driver, ch, sending, helper>>

\* name, ret := d.GetName()
GetName(p) ==
    /\ pc[p] = "GetName"
    /\ \E ret \in Answers("GetName", <<>>) :
         /\ Call(p, "GetName", Dev(p), <<>>, ret)
         /\ IF ret # SUCCESS
            THEN /\ ReturnErr(p, Errorf("unable to get GPU NAME", ret))
                 /\ UNCHANGED frame
            ELSE /\ frame' = [frame EXCEPT ![p].name = TextReading("GetName", Dev(p))]
                 /\ Goto(p, "GetBusType")
                 /\ UNCHANGED err
    /\ UNCHANGED <<flags, driver, ch, sending, helper>>

\* busTypeE, ret := d.GetBusType(); ch <- gpuInfo
GetBusType(p) ==
    /\ pc[p] = "GetBusType"
    /\ \E ret \in Answers("GetBusType", <<>>) :
         /\ Call(p, "GetBusType", Dev(p), <<>>, ret)
         /\ IF ret # SUCCESS
            THEN /\ ReturnErr(p, Errorf("unable to get GPU BUS Type", ret))
                 /\ UNCHANGED sending
            ELSE /\ Send(p, << Metric("gpuinfo", 1,
                        <<Index(p), frame[p].uuid, frame[p].name,
                          getBusTypeString(Reading("GetBusType", Dev(p), <<>>))>>,
                        Dev(p)) >>)
                 /\ Goto(p, AfterInfo)
                 /\ UNCHANGED err
    /\ UNCHANGED <<flags, driver, frame, ch, helper>>

\* FanBlockEntry without the test for a fanless device
FanBlockEntry_NoZeroCheck(fanNums) == "GetMinMaxFanSpeed"

\* `if fanNums > 0 { ... } else { level.Debug(...) }`: a device without fans is
\* only logged
FanBlockEntry(fanNums) == IF fanNums > 0 THEN "GetMinMaxFanSpeed" ELSE AfterFan

\* fanNums, ret := d.GetNumFans()
GetNumFans(p) ==
    /\ pc[p] = "GetNumFans"
    /\ \E ret \in Answers("GetNumFans", <<>>) :
         /\ Call(p, "GetNumFans", Dev(p), <<>>, ret)
         /\ IF ret # SUCCESS
            THEN /\ ReturnErr(p, Errorf("unable to get GPU Fan info", ret))
                 /\ UNCHANGED frame
            ELSE /\ frame' = [frame EXCEPT ![p].fanNums = driverFans]
                 /\ Goto(p, FanBlockEntry(driverFans))
                 /\ UNCHANGED err
    /\ UNCHANGED <<flags, driver, ch, sending, helper>>

\* minFanSpeed, maxFanSpeed, ret := d.GetMinMaxFanSpeed(); then `for f := 0; ...`
GetMinMaxFanSpeed(p) ==
    /\ pc[p] = "GetMinMaxFanSpeed"
    /\ \E ret \in Answers("GetMinMaxFanSpeed", <<>>) :
         /\ Call(p, "GetMinMaxFanSpeed", Dev(p), <<>>, ret)
         /\ IF ret # SUCCESS
            THEN /\ ReturnErr(p, Errorf("unable to get GPU Fan Min/Max Speed", ret))
                 /\ UNCHANGED frame
            ELSE /\ frame' = [frame EXCEPT
                        ![p].minFanSpeed = Reading("GetMinFanSpeed", Dev(p), <<>>),
                        ![p].maxFanSpeed = Reading("GetMaxFanSpeed", Dev(p), <<>>),
                        ![p].f = 0]
                 /\ Goto(p, IF 0 < frame[p].fanNums THEN "GetFanSpeed_v2" ELSE AfterFan)
                 /\ UNCHANGED err
    /\ UNCHANGED <<flags, driver, ch, sending, helper>>

\* the metrics one iteration of the fan loop sends
FanMetrics(index, f, minFanSpeed, maxFanSpeed, fanSpeed, d) ==
    << Metric("min_fan_speed", minFanSpeed, <<index>>, d),
       Metric("max_fan_speed", maxFanSpeed, <<index>>, d),
       Metric("fan_speed", fanSpeed, <<index, Itoa(f)>>, d) >>

\* fanSpeed, ret := d.GetFanSpeed_v2(f); ch <- min, max, speed; f++
GetFanSpeed(p) ==
    /\ pc[p] = "GetFanSpeed_v2"
    /\ LET f == frame[p].f
       IN  \E ret \in Answers("GetFanSpeed_v2", <<f>>) :
             /\ Call(p, "GetFanSpeed_v2", Dev(p), <<f>>, ret)
             /\ IF ret # SUCCESS
                THEN /\ ReturnErr(p, Errorf("unable to get GPU Fan Speed", ret))
                     /\ UNCHANGED <<frame, sending>>
                ELSE /\ Send(p, FanMetrics(Index(p), f, frame[p].minFanSpeed,
                            frame[p].maxFanSpeed,
                            Reading("GetFanSpeed_v2", Dev(p), <<f>>), Dev(p)))
                     /\ frame' = [frame EXCEPT
                            ![p].f = IF f + 1 < frame[p].fanNums THEN f + 1 ELSE 0]
                     /\ Goto(p, IF f + 1 < frame[p].fanNums THEN "GetFanSpeed_v2"
                                                            ELSE AfterFan)
                     /\ UNCHANGED err
    /\ UNCHANGED <<flags, driver, ch, helper>>

\* SoftSwitch with every failure in the logging arm
SoftSwitch_SkipAll(ret) == IF ret = SUCCESS THEN "emit" ELSE "skip"

\* SoftSwitch without the ERROR_NOT_SUPPORTED arm
SoftSwitch_Strict(ret) == IF ret = SUCCESS THEN "emit" ELSE "fail"

\* the switch on a status of a query that tolerates ERROR_NOT_SUPPORTED:
\* "skip" (only logged), "emit" or "fail"
SoftSwitch(ret) ==
    CASE ret = ERROR_NOT_SUPPORTED -> "skip"
      [] ret = SUCCESS -> "emit"
      [] OTHER -> "fail"

\* GetApplicationsClock going on to the next clock type, past the clock ids
\* of this one, when the applications clock is not supported
GetApplicationsClock_SkipDomain(p) ==
    /\ pc[p] = "GetApplicationsClock"
    /\ LET t == frame[p].t
           moreTypes == t + 1 < CLOCK_COUNT
       IN  \E ret \in Answers("GetApplicationsClock", <<t>>) :
             /\ Call(p, "GetApplicationsClock", Dev(p), <<t>>, ret)
             /\ IF SoftSwitch(ret) = "fail"
                THEN /\ ReturnErr(p, Errorf("unable to get GPU Applications Clock Info", ret))
                     /\ UNCHANGED <<frame, sending>>
                ELSE /\ Send(p, IF SoftSwitch(ret) = "emit"
                                THEN << Metric("appclk",
                                        Reading("GetApplicationsClock", Dev(p), <<t>>),
                                        <<Index(p), getClockTypeString(t)>>, Dev(p)) >>
                                ELSE << >>)
                     /\ frame' = [frame EXCEPT
                            ![p].tt = 0,
                            ![p].t = IF SoftSwitch(ret) = "emit" THEN t
                                     ELSE IF moreTypes THEN t + 1 ELSE 0]
                     /\ Goto(p, IF SoftSwitch(ret) = "emit" THEN "GetClock"
                                ELSE IF moreTypes THEN "GetApplicationsClock"
                                ELSE "GetComputeMode")
                     /\ UNCHANGED err
    /\ UNCHANGED <<flags, driver, ch, helper>>

\* appclk, ret := d.GetApplicationsClock(t); then `for tt := 0; ...`, which has
\* CLOCK_ID_COUNT > 0 iterations
GetApplicationsClock(p) ==
    /\ pc[p] = "GetApplicationsClock"
    /\ LET t == frame[p].t
       IN  \E ret \in Answers("GetApplicationsClock", <<t>>) :
             /\ Call(p, "GetApplicationsClock", Dev(p), <<t>>, ret)
             /\ IF SoftSwitch(ret) = "fail"
                THEN /\ ReturnErr(p, Errorf("unable to get GPU Applications Clock Info", ret))
                     /\ UNCHANGED <<frame, sending>>
                ELSE /\ Send(p, IF SoftSwitch(ret) = "emit"
                                THEN << Metric("appclk",
                                        Reading("GetApplicationsClock", Dev(p), <<t>>),
                                        <<Index(p), getClockTypeString(t)>>, Dev(p)) >>
                                ELSE << >>)
                     /\ frame' = [frame EXCEPT ![p].tt = 0]
                     /\ Goto(p, "GetClock")
                     /\ UNCHANGED err
    /\ UNCHANGED <<flags, driver, ch, helper>>

\* GetClock labelling the clock id with the name of a clock type
GetClock_TypeNameTwice(p) ==
    /\ pc[p] = "GetClock"
    /\ LET t == frame[p].t
           tt == frame[p].tt
           moreIds == tt + 1 < CLOCK_ID_COUNT
           moreTypes == t + 1 < CLOCK_COUNT
       IN  \E ret \in Answers("GetClock", <<t, tt>>) :
             /\ Call(p, "GetClock", Dev(p), <<t, tt>>, ret)
             /\ IF SoftSwitch(ret) = "fail"
                THEN /\ ReturnErr(p, Errorf("unable to get GPU Clock Info", ret))
                     /\ UNCHANGED <<frame, sending>>
                ELSE /\ Send(p, IF SoftSwitch(ret) = "emit"
                                THEN << Metric("clk",
                                        Reading("GetClock", Dev(p), <<t, tt>>),
                                        <<Index(p), getClockTypeString(t),
                                          getClockTypeString(tt)>>, Dev(p)) >>
                                ELSE << >>)
                     /\ frame' = [frame EXCEPT
                            ![p].tt = IF moreIds THEN tt + 1 ELSE 0,
                            ![p].t = IF moreIds THEN t ELSE IF moreTypes THEN t + 1 ELSE 0]
                     /\ Goto(p, IF moreIds THEN "GetClock"
                                ELSE IF moreTypes THEN "GetApplicationsClock"
                                ELSE "GetComputeMode")
                     /\ UNCHANGED err
    /\ UNCHANGED <<flags, driver, ch, helper>>

\* clk, ret := d.GetClock(t, tt); tt++, and t++ past the last clock id
GetClock(p) ==
    /\ pc[p] = "GetClock"
    /\ LET t == frame[p].t
           tt == frame[p].tt
           moreIds == tt + 1 < CLOCK_ID_COUNT
           moreTypes == t + 1 < CLOCK_COUNT
       IN  \E ret \in Answers("GetClock", <<t, tt>>) :
             /\ Call(p, "GetClock", Dev(p), <<t, tt>>, ret)
             /\ IF SoftSwitch(ret) = "fail"
                THEN /\ ReturnErr(p, Errorf("unable to get GPU Clock Info", ret))
                     /\ UNCHANGED <<frame, sending>>
                ELSE /\ Send(p, IF SoftSwitch(ret) = "emit"
                                THEN << Metric("clk",
                                        Reading("GetClock", Dev(p), <<t, tt>>),
                                        <<Index(p), getClockTypeString(t),
                                          getClockIDString(tt)>>, Dev(p)) >>
                                ELSE << >>)
                     /\ frame' = [frame EXCEPT
                            ![p].tt = IF moreIds THEN tt + 1 ELSE 0,
                            ![p].t = IF moreIds THEN t ELSE IF moreTypes THEN t + 1 ELSE 0]
                     /\ Goto(p, IF moreIds THEN "GetClock"
                                ELSE IF moreTypes THEN "GetApplicationsClock"
                                ELSE "GetComputeMode")
                     /\ UNCHANGED err
    /\ UNCHANGED <<flags, driver, ch, helper>>

\* compute_m, ret := d.GetComputeMode(); ch <- gpuComputeMode
GetComputeMode(p) ==
    /\ pc[p] = "GetComputeMode"
    /\ \E ret \in Answers("GetComputeMode", <<>>) :
         /\ Call(p, "GetComputeMode", Dev(p), <<>>, ret)
         /\ IF ret # SUCCESS
            THEN /\ ReturnErr(p, Errorf("unable to get GPU Compute Mode Info", ret))
                 /\ UNCHANGED sending
            ELSE /\ Send(p, << Metric("compute_mode", 1,
                        <<Index(p), getComputeModeString(
                            Reading("GetComputeMode", Dev(p), <<>>))>>, Dev(p)) >>)
                 /\ Goto(p, "GetPerformanceState")
                 /\ UNCHANGED err
    /\ UNCHANGED <<flags, driver, frame, ch, helper>>

\* perf_state, ret := d.GetPerformanceState(); ch <- gpuPerf
GetPerformanceState(p) ==
    /\ pc[p] = "GetPerformanceState"
    /\ \E ret \in Answers("GetPerformanceState", <<>>) :
         /\ Call(p, "GetPerformanceState", Dev(p), <<>>, ret)
         /\ IF ret # SUCCESS
            THEN /\ ReturnErr(p, Errorf("unable to get GPU Performance State Info", ret))
                 /\ UNCHANGED sending
            ELSE /\ Send(p, << Metric("perf", 1,
                        <<Index(p), getPstatesString(
                            Reading("GetPerformanceState", Dev(p), <<>>))>>, Dev(p)) >>)
                 /\ Goto(p, "GetPersistenceMode")
                 /\ UNCHANGED err
    /\ UNCHANGED <<flags, driver, frame, ch, helper>>

\* persis_mode, ret := d.GetPersistenceMode(); ch <- gpuPersisMode
GetPersistenceMode(p) ==
    /\ pc[p] = "GetPersistenceMode"
    /\ \E ret \in Answers("GetPersistenceMode", <<>>) :
         /\ Call(p, "GetPersistenceMode", Dev(p), <<>>, ret)
         /\ IF ret # SUCCESS
            THEN /\ ReturnErr(p, Errorf("unable to get GPU Persistence Mode Info", ret))
                 /\ UNCHANGED sending
            ELSE /\ Send(p, << Metric("persis_mode", 1,
                        <<Index(p), getPersisModeString(
                            Reading("GetPersistenceMode", Dev(p), <<>>))>>, Dev(p)) >>)
                 /\ Goto(p, "GetUtilizationRates")
                 /\ UNCHANGED err
    /\ UNCHANGED <<flags, driver, frame, ch, helper>>

\* GetUtilizationRates sending the memory rate under both type labels
GetUtilizationRates_MemoryTwice(p) ==
    /\ pc[p] = "GetUtilizationRates"
    /\ \E ret \in Answers("GetUtilizationRates", <<>>) :
         /\ Call(p, "GetUtilizationRates", Dev(p), <<>>, ret)
         /\ IF ret # SUCCESS
            THEN /\ ReturnErr(p, Errorf("unable to get GPU Utilization Info", ret))
                 /\ UNCHANGED sending
            ELSE /\ Send(p, << Metric("util",
                                   Reading("GetUtilizationRates.Memory", Dev(p), <<>>),
                                   <<Index(p), "GPU">>, Dev(p)),
                               Metric("util",
                                   Reading("GetUtilizationRates.Memory", Dev(p), <<>>),
                                   <<Index(p), "MEMORY">>, Dev(p)) >>)
                 /\ Goto(p, TemperatureHead)
                 /\ UNCHANGED err
    /\ UNCHANGED <<flags, driver, frame, ch, helper>>

\* util, ret := d.GetUtilizationRates(); ch <- gpuUtil "GPU", gpuUtil "MEMORY"
GetUtilizationRates(p) ==
    /\ pc[p] = "GetUtilizationRates"
    /\ \E ret \in Answers("GetUtilizationRates", <<>>) :
         /\ Call(p, "GetUtilizationRates", Dev(p), <<>>, ret)
         /\ IF ret # SUCCESS
            THEN /\ ReturnErr(p, Errorf("unable to get GPU Utilization Info", ret))
                 /\ UNCHANGED sending
            ELSE /\ Send(p, << Metric("util",
                                   Reading("GetUtilizationRates.Gpu", Dev(p), <<>>),
                                   <<Index(p), "GPU">>, Dev(p)),
                               Metric("util",
                                   Reading("GetUtilizationRates.Memory", Dev(p), <<>>),
                                   <<Index(p), "MEMORY">>, Dev(p)) >>)
                 /\ Goto(p, TemperatureHead)
                 /\ UNCHANGED err
    /\ UNCHANGED <<flags, driver, frame, ch, helper>>

\* GetTemperature passing over a sensor the device does not support
GetTemperature_SoftSkip(p) ==
    /\ pc[p] = "GetTemperature"
    /\ LET t == frame[p].t
           more == t + 1 < TEMPERATURE_COUNT
       IN  \E ret \in Answers("GetTemperature", <<t>>) :
             /\ Call(p, "GetTemperature", Dev(p), <<t>>, ret)
             /\ IF SoftSwitch(ret) = "fail"
                THEN /\ ReturnErr(p, Errorf("unable to get GPU Temperature Sensor Value", ret))
                     /\ UNCHANGED <<frame, sending>>
                ELSE /\ Send(p, IF SoftSwitch(ret) = "emit"
                                THEN << Metric("temp",
                                        Reading("GetTemperature", Dev(p), <<t>>),
                                        <<Index(p), getTemperatureSensorString(t)>>,
                                        Dev(p)) >>
                                ELSE << >>)
                     /\ frame' = [frame EXCEPT ![p].t = IF more THEN t + 1 ELSE 0]
                     /\ Goto(p, IF more THEN "GetTemperature" ELSE "GetPowerUsage")
                     /\ UNCHANGED err
    /\ UNCHANGED <<flags, driver, ch, helper>>

\* temp, ret := d.GetTemperature(t); ch <- gpuTemp; t++
GetTemperature(p) ==
    /\ pc[p] = "GetTemperature"
    /\ LET t == frame[p].t
           more == t + 1 < TEMPERATURE_COUNT
       IN  \E ret \in Answers("GetTemperature", <<t>>) :
             /\ Call(p, "GetTemperature", Dev(p), <<t>>, ret)
             /\ IF ret # SUCCESS
                THEN /\ ReturnErr(p, Errorf("unable to get GPU Temperature Sensor Value", ret))
                     /\ UNCHANGED <<frame, sending>>
                ELSE /\ Send(p, << Metric("temp", Reading("GetTemperature", Dev(p), <<t>>),
                            <<Index(p), getTemperatureSensorString(t)>>, Dev(p)) >>)
                     /\ frame' = [frame EXCEPT ![p].t = IF more THEN t + 1 ELSE 0]
                     /\ Goto(p, IF more THEN "GetTemperature" ELSE "GetPowerUsage")
                     /\ UNCHANGED err
    /\ UNCHANGED <<flags, driver, ch, helper>>

\* GetPowerUsage returning nil where it is to return the error
GetPowerUsage_ReturnNil(p) ==
    /\ pc[p] = "GetPowerUsage"
    /\ \E ret \in Answers("GetPowerUsage", <<>>) :
         /\ Call(p, "GetPowerUsage", Dev(p), <<>>, ret)
         /\ IF ret # SUCCESS
            THEN /\ Goto(p, "Shutdown")
                 /\ UNCHANGED sending
            ELSE /\ Send(p, << Metric("power_usage",
                        Reading("GetPowerUsage", Dev(p), <<>>), <<Index(p)>>, Dev(p)) >>)
                 /\ Goto(p, AfterPowerUsage)
         /\ UNCHANGED err
    /\ UNCHANGED <<flags, driver, frame, ch, helper>>

\* GetPowerUsage asking again when the query fails
GetPowerUsage_Retry(p) ==
    /\ pc[p] = "GetPowerUsage"
    /\ \E ret \in Answers("GetPowerUsage", <<>>) :
         /\ Call(p, "GetPowerUsage", Dev(p), <<>>, ret)
         /\ IF ret # SUCCESS
            THEN /\ Goto(p, "GetPowerUsage")
                 /\ UNCHANGED sending
            ELSE /\ Send(p, << Metric("power_usage",
                        Reading("GetPowerUsage", Dev(p), <<>>), <<Index(p)>>, Dev(p)) >>)
                 /\ Goto(p, AfterPowerUsage)
         /\ UNCHANGED err
    /\ UNCHANGED <<flags, driver, frame, ch, helper>>

\* power, ret := d.GetPowerUsage(); ch <- gpuPowerUsage
GetPowerUsage(p) ==
    /\ pc[p] = "GetPowerUsage"
    /\ \E ret \in Answers("GetPowerUsage", <<>>) :
         /\ Call(p, "GetPowerUsage", Dev(p), <<>>, ret)
         /\ IF ret # SUCCESS
            THEN /\ ReturnErr(p, Errorf("unable to get GPU Power Usage Value", ret))
                 /\ UNCHANGED sending
            ELSE /\ Send(p, << Metric("power_usage",
                        Reading("GetPowerUsage", Dev(p), <<>>), <<Index(p)>>, Dev(p)) >>)
                 /\ Goto(p, AfterPowerUsage)
                 /\ UNCHANGED err
    /\ UNCHANGED <<flags, driver, frame, ch, helper>>

\* enforce_limit, ret := d.GetEnforcedPowerLimit(); switch ret
GetEnforcedPowerLimit(p) ==
    /\ pc[p] = "GetEnforcedPowerLimit"
    /\ \E ret \in Answers("GetEnforcedPowerLimit", <<>>) :
         /\ Call(p, "GetEnforcedPowerLimit", Dev(p), <<>>, ret)
         /\ IF SoftSwitch(ret) = "fail"
            THEN /\ ReturnErr(p, Errorf("unable to get GPU Power Enforced Limitation Value", ret))
                 /\ UNCHANGED sending
            ELSE /\ Send(p, IF SoftSwitch(ret) = "emit"
                            THEN << Metric("power_enforce_limit",
                                    Reading("GetEnforcedPowerLimit", Dev(p), <<>>),
                                    <<Index(p)>>, Dev(p)) >>
                            ELSE << >>)
                 /\ Goto(p, "GetMemoryInfo")
                 /\ UNCHANGED err
    /\ UNCHANGED <<flags, driver, frame, ch, helper>>

\* GetMemoryInfo only logging a failed query and going on to the next device
GetMemoryInfo_LogOnly(p) ==
    /\ pc[p] = "GetMemoryInfo"
    /\ \E ret \in Answers("GetMemoryInfo", <<>>) :
         /\ Call(p, "GetMemoryInfo", Dev(p), <<>>, ret)
         /\ Send(p, IF ret = SUCCESS
                    THEN << Metric("mem_total",
                                Reading("GetMemoryInfo.Total", Dev(p), <<>>),
                                <<Index(p)>>, Dev(p)),
                            Metric("mem_free",
                                Reading("GetMemoryInfo.Free", Dev(p), <<>>),
                                <<Index(p)>>, Dev(p)),
                            Metric("mem_used",
                                Reading("GetMemoryInfo.Used", Dev(p), <<>>),
                                <<Index(p)>>, Dev(p)) >>
                    ELSE << >>)
         /\ LET next == frame[p].indexI + 1
                n == Len(frame[p].devices)
            IN  /\ frame' = [frame EXCEPT
                       ![p].indexI = IF next < n THEN next ELSE frame[p].indexI]
                /\ Goto(p, DeviceHead(next, n))
         /\ UNCHANGED err
    /\ UNCHANGED <<flags, driver, ch, helper>>

\* mem, ret := d.GetMemoryInfo(); ch <- total, free, used; then the next device
GetMemoryInfo(p) ==
    /\ pc[p] = "GetMemoryInfo"
    /\ \E ret \in Answers("GetMemoryInfo", <<>>) :
         /\ Call(p, "GetMemoryInfo", Dev(p), <<>>, ret)
         /\ IF ret # SUCCESS
            THEN /\ ReturnErr(p, Errorf("unable to get GPU Memory Info", ret))
                 /\ UNCHANGED <<frame, sending>>
            ELSE /\ Send(p, << Metric("mem_total",
                                   Reading("GetMemoryInfo.Total", Dev(p), <<>>),
                                   <<Index(p)>>, Dev(p)),
                               Metric("mem_free",
                                   Reading("GetMemoryInfo.Free", Dev(p), <<>>),
                                   <<Index(p)>>, Dev(p)),
                               Metric("mem_used",
                                   Reading("GetMemoryInfo.Used", Dev(p), <<>>),
                                   <<Index(p)>>, Dev(p)) >>)
                 /\ LET next == frame[p].indexI + 1
                        n == Len(frame[p].devices)
                    IN  /\ frame' = [frame EXCEPT
                               ![p].indexI = IF next < n THEN next ELSE frame[p].indexI]
                        /\ Goto(p, DeviceHead(next, n))
                 /\ UNCHANGED err
    /\ UNCHANGED <<flags, driver, ch, helper>>

\* one step of the Update call p
Update(p) ==
    \/ NvmlInit(p)
    \/ NvmlShutdown(p)
    \/ DeviceGetCount(p)
    \/ DeviceGetHandleByIndex(p)
    \/ SystemGetDriverVersion(p)
    \/ SystemGetCudaDriverVersion(p)
    \/ SystemGetNVMLVersion(p)
    \/ GetUUID(p)
    \/ GetName(p)
    \/ GetBusType(p)
    \/ GetNumFans(p)
    \/ GetMinMaxFanSpeed(p)
    \/ GetFanSpeed(p)
    \/ GetApplicationsClock(p)
    \/ GetClock(p)
    \/ GetComputeMode(p)
    \/ GetPerformanceState(p)
    \/ GetPersistenceMode(p)
    \/ GetUtilizationRates(p)
    \/ GetTemperature(p)
    \/ GetPowerUsage(p)
    \/ GetEnforcedPowerLimit(p)
    \/ GetMemoryInfo(p)
    \/ ChanSend(p)

(***************************************************************************)
(* Specifications.                                                         *)
(***************************************************************************)
NoLabel == ""

\* flags as parsed, a driver with some inventory, nothing called yet
Configured ==
    /\ enableNVGPUSysInfo \in BOOLEAN
    /\ enableNVGPUInfo \in BOOLEAN
    /\ enableNVGPUFan \in BOOLEAN
    /\ variant \in {"full", "base"}
    /\ driverCount \in 0 .. MaxDevices
    \* the fan inventory shows only through the fan family
    /\ driverFans \in IF enableNVGPUFan THEN 0 .. MaxFans ELSE {0}
    /\ driverLacks \in Profiles
    /\ calls = [p \in Polls |-> << >>]
    /\ frame = [p \in Polls |-> NewFrame]
    /\ ch = [p \in Polls |-> << >>]
    /\ sending = [p \in Polls |-> << >>]
    /\ err = [p \in Polls |-> nil]

\* one scrape: a single Update call
Init ==
    /\ Configured
    /\ faults = MaxFaults
    /\ pc = [p \in Polls |-> IF p = 1 THEN "Init" ELSE "idle"]
    /\ mapFn = "none" /\ mapIn = 0 /\ mapOut = NoLabel

Next == \E p \in Polls : Update(p)

Spec == Init /\ [][Next]_vars

\* every NVML call returns and the host takes every metric sent on ch, so a
\* poll that can take its next step does take it
SpecLive == Init /\ [][Next]_vars /\ WF_vars(Next)

\* a driver that has one device with one fan, supports every query and never
\* fails, with every family enabled
Healthy ==
    /\ enableNVGPUSysInfo = TRUE
    /\ enableNVGPUInfo = TRUE
    /\ enableNVGPUFan = TRUE
    /\ variant = "full"
    /\ driverCount = 1
    /\ driverFans = 1
    /\ driverLacks = {}
    /\ faults = 0

\* two scrapes at a time: the host calls Update from one goroutine per scrape
InitConc ==
    /\ Configured
    /\ Healthy
    /\ pc = [p \in Polls |-> "Init"]
    /\ mapFn = "none" /\ mapIn = 0 /\ mapOut = NoLabel

SpecConc == InitConc /\ [][Next]_vars

(***************************************************************************)
(* Two scrapes one after the other: the host calls Update again once the   *)
(* call before has returned.                                               *)
(***************************************************************************)
\* Scrape entering Update with the locals the call before left behind
Scrape_KeepLocals(p) ==
    /\ p > 1
    /\ pc[p] = "idle"
    /\ pc[p - 1] = "returned"
    /\ pc' = [pc EXCEPT ![p] = "Init"]
    /\ frame' = [frame EXCEPT ![p] = frame[p - 1]]
    /\ faults' = MaxFaults
    /\ UNCHANGED <<flags, driver, calls, ch, sending, err, helper>>

\* the next call of Update: its locals (`var devices []nvml.Device`, ...) are
\* new, the receiver c is what it was, and the driver may fail again
Scrape(p) ==
    /\ p > 1
    /\ pc[p] = "idle"
    /\ pc[p - 1] = "returned"
    /\ pc' = [pc EXCEPT ![p] = "Init"]
    /\ frame' = [frame EXCEPT ![p] = NewFrame]
    /\ faults' = MaxFaults
    /\ UNCHANGED <<flags, driver, calls, ch, sending, err, helper>>

NextSeq == \E p \in Polls : Update(p) \/ Scrape(p)

\* every family enabled, devices with one fan each, any capability profile,
\* either Update, and a driver that can fail
InitSeq ==
    /\ Configured
    /\ enableNVGPUSysInfo = TRUE
    /\ enableNVGPUInfo = TRUE
    /\ enableNVGPUFan = TRUE
    /\ driverCount <= MaxSeqDevices
    /\ driverFans = 1
    /\ faults = MaxFaults
    /\ pc = [p \in Polls |-> IF p = 1 THEN "Init" ELSE "idle"]
    /\ mapFn = "none" /\ mapIn = 0 /\ mapOut = NoLabel

SpecSeq == InitSeq /\ [][NextSeq]_vars

(***************************************************************************)
(* The label helpers on their own: one helper applied to one code.         *)
(***************************************************************************)
MapFns ==
    {"getBusTypeString", "getClockTypeString", "getClockIDString",
     "getComputeModeString", "getPstatesString", "getPersisModeString",
     "getTemperatureSensorString"}

Codes == MinCode .. MaxCode

Label(fn, code) ==
    CASE fn = "getBusTypeString" -> getBusTypeString(code)
      [] fn = "getClockTypeString" -> getClockTypeString(code)
      [] fn = "getClockIDString" -> getClockIDString(code)
      [] fn = "getComputeModeString" -> getComputeModeString(code)
      [] fn = "getPstatesString" -> getPstatesString(code)
      [] fn = "getPersisModeString" -> getPersisModeString(code)
      [] fn = "getTemperatureSensorString" -> getTemperatureSensorString(code)

InitMap ==
    /\ Configured
    /\ Healthy
    /\ pc = [p \in Polls |-> "idle"]
    /\ mapFn \in MapFns
    /\ mapIn \in Codes
    /\ mapOut = NoLabel

ApplyLabel ==
    /\ mapOut = NoLabel
    /\ mapOut' = Label(mapFn, mapIn)
    /\ UNCHANGED <<flags, driver, faults, calls, pc, frame, ch, sending, err,
                   mapFn, mapIn>>

NextMap == ApplyLabel

SpecMap == InitMap /\ [][NextMap]_vars

(***************************************************************************)
(* The CUDA version label on its own: the Sprintf of the sysinfo block      *)
(* applied to one packed integer.                                          *)
(***************************************************************************)
\* the integers nvml.SystemGetCudaDriverVersion_v2 can answer with
CudaRaws == 0 .. 1000 * MaxMajor + 999

InitCuda ==
    /\ Configured
    /\ Healthy
    /\ pc = [p \in Polls |-> "idle"]
    /\ mapFn = "CudaVersionString"
    /\ mapIn \in CudaRaws
    /\ mapOut = NoLabel

ApplyCuda ==
    /\ mapOut = NoLabel
    /\ mapOut' = CudaVersionString(mapIn)
    /\ UNCHANGED <<flags, driver, faults, calls, pc, frame, ch, sending, err,
                   mapFn, mapIn>>

NextCuda == ApplyCuda

SpecCuda == InitCuda /\ [][NextCuda]_vars

(***************************************************************************)
(* Properties.                                                             *)
(***************************************************************************)
\* the queries whose NOT_SUPPORTED answer is to be skipped, not to fail the poll
SoftSkipQueries == {"GetApplicationsClock", "GetClock", "GetEnforcedPowerLimit"}

\* the answer c fails a poll: not SUCCESS, and not a skipped NOT_SUPPORTED
HardAnswer(c) ==
    /\ c.ret # SUCCESS
    /\ ~(c.ret = ERROR_NOT_SUPPORTED /\ c.op \in SoftSkipQueries)

\* the positions of poll p's calls at which a query (any call between Init
\* and Shutdown) was answered with a hard failure
HardFailures(p) ==
    {k \in DOMAIN calls[p] :
        /\ calls[p][k].op \notin {"Init", "Shutdown"}
        /\ HardAnswer(calls[p][k])}

Shutdowns(p) == {k \in DOMAIN calls[p] : calls[p][k].op = "Shutdown"}

InitSucceeded(p) ==
    /\ Len(calls[p]) >= 1
    /\ calls[p][1].op = "Init"
    /\ calls[p][1].ret = SUCCESS

LastCall(p) == calls[p][Len(calls[p])]

\* the metrics of family fam that poll p sent for device d
Sent(p, fam, d) == {k \in DOMAIN ch[p] : ch[p][k].fam = fam /\ ch[p][k].dev = d}

\* poll p is not inside a send `ch <-`: the host has taken every metric of
\* the calls p has made (a poll at a call, or returned, is settled)
Settled(p) == sending[p] = << >>

\* metrics once sent stay sent
AppendOnly(p) ==
    /\ Len(ch'[p]) >= Len(ch[p])
    /\ SubSeq(ch'[p], 1, Len(ch[p])) = ch[p]

\* C1: a poll whose nvml.Init succeeded calls nvml.Shutdown exactly once by
\* the time it returns, whatever the exit path, and Shutdown is the last NVML
\* call of the poll; a poll never calls Shutdown without a successful Init.
C1_ShutdownOnceAndLast ==
    \A p \in Polls :
        /\ Cardinality(Shutdowns(p)) <= 1
        /\ \A k \in Shutdowns(p) : k = Len(calls[p]) /\ InitSucceeded(p)
        /\ (pc[p] = "returned" /\ InitSucceeded(p)) => Cardinality(Shutdowns(p)) = 1

\* C1 witness: a poll that failed in a per-device query after sending metrics
\* has returned, its last call being Shutdown.
C1_Witness ==
    \E p \in Polls :
        /\ pc[p] = "returned"
        /\ err[p] # nil
        /\ Len(ch[p]) > 0
        /\ LastCall(p).op = "Shutdown"
        /\ HardFailures(p) # {}

\* C2: once a query of a poll is answered with a hard failure, the poll issues
\* no further query (the only call that follows is the one Shutdown), sends
\* no further metric, and has called Shutdown exactly once when it returns.
C2_ShortCircuit ==
    /\ [](\A p \in Polls : \A k \in HardFailures(p) :
            /\ \A j \in (k + 1) .. Len(calls[p]) : calls[p][j].op = "Shutdown"
            /\ Cardinality(Shutdowns(p)) <= 1
            /\ pc[p] \in {"Shutdown", "returned"}
            /\ pc[p] = "returned" => Cardinality(Shutdowns(p)) = 1)
    /\ [][\A p \in Polls : (HardFailures(p) # {})' => ch'[p] = ch[p]]_vars

\* C2 witness: a returned poll whose memory query of the second device failed
\* hard, after metrics were sent.
C2_Witness ==
    \E p \in Polls :
        /\ pc[p] = "returned"
        /\ \E k \in HardFailures(p) :
              /\ calls[p][k].op = "GetMemoryInfo"
              /\ calls[p][k].dev = DeviceHandle(1)
        /\ Len(ch[p]) > 0

SysInfoQueries ==
    {"SystemGetDriverVersion", "SystemGetCudaDriverVersion_v2", "SystemGetNVMLVersion"}
GpuInfoQueries == {"GetUUID", "GetName", "GetBusType"}
FanQueries == {"GetNumFans", "GetMinMaxFanSpeed", "GetFanSpeed_v2"}
FanFamilies == {"min_fan_speed", "max_fan_speed", "fan_speed"}

\* poll p neither issued a query among ops nor sent a metric among fams
Silent(p, ops, fams) ==
    /\ \A k \in DOMAIN calls[p] : calls[p][k].op \notin ops
    /\ \A k \in DOMAIN ch[p] : ch[p][k].fam \notin fams

\* C3: a poll issues no query and sends no metric of a family (sysinfo,
\* gpuinfo, fan) whose flag is false.
C3_DisabledFamilySilent ==
    \A p \in Polls :
        /\ ~enableNVGPUSysInfo => Silent(p, SysInfoQueries, {"sysinfo"})
        /\ ~enableNVGPUInfo => Silent(p, GpuInfoQueries, {"gpuinfo"})
        /\ ~enableNVGPUFan => Silent(p, FanQueries, FanFamilies)

\* C3 witness: with the three flags false a poll over at least one device
\* returned nil and sent metrics.
C3_Witness ==
    \E p \in Polls :
        /\ ~enableNVGPUSysInfo /\ ~enableNVGPUInfo /\ ~enableNVGPUFan
        /\ pc[p] = "returned"
        /\ err[p] = nil
        /\ driverCount >= 1
        /\ Len(ch[p]) > 0

\* the positions at which the enforced-power-limit query was answered
\* NOT_SUPPORTED
LimitUnsupported(p) ==
    {k \in DOMAIN calls[p] :
        /\ calls[p][k].op = "GetEnforcedPowerLimit"
        /\ calls[p][k].ret = ERROR_NOT_SUPPORTED}

\* C4: when the enforced-power-limit query of a device is answered
\* NOT_SUPPORTED the poll does not fail on it: no power_enforce_limit metric is
\* sent for the device, its power_usage metric and everything sent before stay
\* sent, the next call is the memory query of the same device, and after that
\* the next device (or, past the last device, the return of nil).
C4_LimitUnsupportedSkipped ==
    /\ [](\A p \in Polls : \A k \in LimitUnsupported(p) :
            LET d == calls[p][k].dev
                n == Len(calls[p])
            IN  /\ Sent(p, "power_enforce_limit", d) = {}
                /\ Sent(p, "power_usage", d) # {}
                /\ IF k = n
                   THEN pc[p] = "GetMemoryInfo" /\ err[p] = nil
                   ELSE calls[p][k + 1].op = "GetMemoryInfo" /\ calls[p][k + 1].dev = d
                /\ (k + 2 <= n /\ calls[p][k + 1].ret = SUCCESS) =>
                      IF d[2] + 1 < driverCount
                      THEN calls[p][k + 2].dev = DeviceHandle(d[2] + 1)
                      ELSE calls[p][k + 2].op = "Shutdown" /\ err[p] = nil
                /\ err[p] # nil => \E j \in HardFailures(p) : j # k)
    /\ [][\A p \in Polls : AppendOnly(p)]_vars

\* C4 witness: a poll over two devices returned nil although the first device
\* answered the enforced-limit query NOT_SUPPORTED; the memory metrics of both
\* devices were sent.
C4_Witness ==
    \E p \in Polls :
        /\ pc[p] = "returned"
        /\ err[p] = nil
        /\ \E k \in LimitUnsupported(p) : calls[p][k].dev = DeviceHandle(0)
        /\ Sent(p, "mem_total", DeviceHandle(0)) # {}
        /\ Sent(p, "mem_total", DeviceHandle(1)) # {}

\* the codes nvml defines for the enum a helper labels (PSTATE_0 .. PSTATE_15
\* are 0 .. 15, FEATURE_ENABLED is 1)
KnownCodes(fn) ==
    CASE fn = "getBusTypeString" ->
            {BUS_TYPE_UNKNOWN, BUS_TYPE_PCI, BUS_TYPE_PCIE, BUS_TYPE_FPCI, BUS_TYPE_AGP}
      [] fn = "getClockTypeString" -> {CLOCK_GRAPHICS, CLOCK_SM, CLOCK_MEM, CLOCK_VIDEO}
      [] fn = "getClockIDString" ->
            {CLOCK_ID_CURRENT, CLOCK_ID_APP_CLOCK_TARGET, CLOCK_ID_APP_CLOCK_DEFAULT,
             CLOCK_ID_CUSTOMER_BOOST_MAX}
      [] fn = "getComputeModeString" ->
            {COMPUTEMODE_DEFAULT, COMPUTEMODE_EXCLUSIVE_THREAD, COMPUTEMODE_PROHIBITED,
             COMPUTEMODE_EXCLUSIVE_PROCESS}
      [] fn = "getPstatesString" -> (0 .. 15) \cup {PSTATE_UNKNOWN}
      [] fn = "getPersisModeString" -> {FEATURE_DISABLED, 1}
      [] fn = "getTemperatureSensorString" -> {TEMPERATURE_GPU}

\* C5: every enum-to-label helper returns "UNKNOWN" for every code outside
\* the known codes of its enum.
C5_UnknownOutsideTable ==
    (mapOut # NoLabel /\ mapIn \notin KnownCodes(mapFn)) => mapOut = "UNKNOWN"

\* poll p holds an NVML session: its Init succeeded and it has not called Shutdown
SessionOpen(p) == InitSucceeded(p) /\ Shutdowns(p) = {}

\* C6: polls running at the same time are serialized: at most one session is
\* open at a time, and while one poll holds a session no other poll is between
\* its first NVML call and its return.
C6_PollsSerialized ==
    \A p, q \in Polls :
        (p # q /\ SessionOpen(q)) =>
            /\ ~SessionOpen(p)
            /\ calls[p] = << >> \/ pc[p] = "returned"

\* The host of the collector is not in nvidia_gpu_linux.go; it is modelled
\* from the specification's account of it: "metrics already queued for this
\* call are discarded by the host" when the poll fails. The output of poll p
\* delivered for its cycle is what the host took from ch when Update
\* returned nil, and nothing when Update returned an error.
HostOutput(p) == IF pc[p] = "returned" /\ err[p] = nil THEN ch[p] ELSE << >>

\* poll p was answered a hard failure by Init or by a query
HardFailed(p) ==
    \E k \in DOMAIN calls[p] : calls[p][k].op # "Shutdown" /\ HardAnswer(calls[p][k])

Asked(p, op, d) == {k \in DOMAIN calls[p] : calls[p][k].op = op /\ calls[p][k].dev = d}

\* the fan block of device d ran to its end in poll p: the speed of its last
\* fan was read
FanBlockDone(p, d) ==
    \E k \in Asked(p, "GetFanSpeed_v2", d) :
        calls[p][k].arg = <<driverFans - 1>> /\ calls[p][k].ret = SUCCESS

\* C8: for a device with F > 0 fans whose fan queries all succeed, the poll
\* asks min/max once and, its sends done, has sent F fan_speed metrics, one
\* per fan index, one min_fan_speed and one max_fan_speed metric.
C8_FanMetricCounts ==
    \A p \in Polls : \A i \in 0 .. MaxDevices - 1 :
        LET d == DeviceHandle(i)
        IN  (enableNVGPUFan /\ driverFans > 0 /\ FanBlockDone(p, d) /\ Settled(p)) =>
                /\ Cardinality(Asked(p, "GetMinMaxFanSpeed", d)) = 1
                /\ Cardinality(Sent(p, "fan_speed", d)) = driverFans
                /\ \A f \in 0 .. driverFans - 1 :
                      Cardinality({k \in Sent(p, "fan_speed", d) :
                                      ch[p][k].labels = <<Itoa(i), Itoa(f)>>}) = 1
                /\ Cardinality(Sent(p, "min_fan_speed", d)) = 1
                /\ Cardinality(Sent(p, "max_fan_speed", d)) = 1

\* the positions at which a device answered the fan-count query with 0 fans
Fanless(p) ==
    {k \in DOMAIN calls[p] :
        /\ calls[p][k].op = "GetNumFans"
        /\ calls[p][k].ret = SUCCESS
        /\ driverFans = 0}

\* C9: a device that reports 0 fans gets no fan metric and no min/max or
\* per-fan query, and the poll does not fail on it: its next call is the first
\* query of the next family of the same device.
C9_FanlessDeviceSkipped ==
    \A p \in Polls : \A k \in Fanless(p) :
        LET d == calls[p][k].dev
        IN  /\ \A fam \in FanFamilies : Sent(p, fam, d) = {}
            /\ Asked(p, "GetMinMaxFanSpeed", d) = {}
            /\ Asked(p, "GetFanSpeed_v2", d) = {}
            /\ IF k = Len(calls[p])
               THEN /\ err[p] = nil
                    /\ pc[p] = IF variant = "full" THEN "GetApplicationsClock"
                                                   ELSE "GetTemperature"
               ELSE /\ calls[p][k + 1].dev = d
                    /\ calls[p][k + 1].op =
                          IF variant = "full" THEN "GetApplicationsClock"
                                              ELSE "GetTemperature"
            /\ err[p] # nil => \E j \in HardFailures(p) : j > k

\* C9 witness: a poll over fanless devices, fan family enabled, returned nil
\* with the metrics of the later families sent.
C9_Witness ==
    \E p \in Polls :
        /\ enableNVGPUFan
        /\ pc[p] = "returned"
        /\ err[p] = nil
        /\ \E k \in Fanless(p) : calls[p][k].dev = DeviceHandle(0)
        /\ Sent(p, "temp", DeviceHandle(0)) # {}

\* the handle-resolution calls of poll p, in order
Resolved(p) == SelectSeq(calls[p], LAMBDA c : c.op = "DeviceGetHandleByIndex")

\* the index labels poll p used: the first label of every per-device metric
IndexLabels(p) ==
    {ch[p][k].labels[1] : k \in {j \in DOMAIN ch[p] : ch[p][j].dev # NoDevice}}

\* the decimal text of the indices 0 .. 3
Decimal(i) == CASE i = 0 -> "0" [] i = 1 -> "1" [] i = 2 -> "2" [] i = 3 -> "3"

\* C10: the enumeration resolves the handles of the indices 0, 1, ... in this
\* order, each once, N of them when it completes for a device count N; the
\* device at position i of the list is the handle resolved for index i; every
\* metric sent for it carries the index label i in decimal; and the labels in
\* use are those of 0 .. m for some m < N.
C10_IndexStableContiguous ==
    \A p \in Polls :
        LET r == Resolved(p)
            devices == frame[p].devices
        IN  /\ \A k \in DOMAIN r : r[k].arg = <<k - 1>>
            /\ Len(r) <= driverCount
            /\ Len(devices) = Cardinality({k \in DOMAIN r : r[k].ret = SUCCESS})
            /\ \A i \in 0 .. Len(devices) - 1 : devices[i + 1] = DeviceHandle(i)
            /\ (\E k \in DOMAIN calls[p] :
                    calls[p][k].op \notin {"Init", "DeviceGetCount", "DeviceGetHandleByIndex"})
                => (Len(devices) = driverCount \/ HardFailures(p) # {})
            /\ \A k \in DOMAIN ch[p] :
                  ch[p][k].dev # NoDevice =>
                      \E i \in 0 .. Len(devices) - 1 :
                          /\ ch[p][k].dev = devices[i + 1]
                          /\ ch[p][k].labels[1] = Decimal(i)
            /\ \E m \in (0 - 1) .. (driverCount - 1) :
                  IndexLabels(p) = {Decimal(i) : i \in 0 .. m}

\* C10 witness: a poll over two devices returned nil; metrics were sent with
\* index label "0" for the first handle and "1" for the second.
C10_Witness ==
    \E p \in Polls :
        /\ pc[p] = "returned"
        /\ err[p] = nil
        /\ Len(frame[p].devices) = 2
        /\ \E k \in Sent(p, "mem_used", DeviceHandle(0)) : ch[p][k].labels = <<"0">>
        /\ \E k \in Sent(p, "mem_used", DeviceHandle(1)) : ch[p][k].labels = <<"1">>

\* C11: the cuda_v label of a packed version 1000*major + 10*minor, with
\* 0 <= minor < 100, is "major.minor": 11070 gives "11.7", 12020 gives "12.2".
C11_CudaVersionLabel ==
    (mapFn = "CudaVersionString" /\ mapOut # NoLabel) =>
        /\ \A major \in 0 .. MaxMajor : \A minor \in 0 .. 99 :
              mapIn = 1000 * major + 10 * minor =>
                  mapOut = Itoa(major) \o "." \o Itoa(minor)
        /\ mapIn = 11070 => mapOut = "11.7"
        /\ mapIn = 12020 => mapOut = "12.2"

\* C11 witness: the label of 11070 was computed and has a minor part that the
\* remainder, not the whole integer, gives.
C11_Witness ==
    /\ mapFn = "CudaVersionString"
    /\ mapIn = 11070
    /\ mapOut = "11.7"

\* the metrics of family fam poll p sent for device d, in the order sent
SentSeq(p, fam, d) == SelectSeq(ch[p], LAMBDA x : x.fam = fam /\ x.dev = d)

\* C12: the utilization query is issued at most once per device; when it
\* succeeds with (Gpu = g, Memory = m) the poll sends exactly two util
\* metrics for the device, g labelled "GPU" then m labelled "MEMORY" (while
\* it is in these sends the host has the first or none, never another); when
\* it does not succeed the poll sends no util metric for the device and
\* fails: only the Shutdown follows.
C12_UtilizationPair ==
    \A p \in Polls : \A k \in DOMAIN calls[p] :
        calls[p][k].op = "GetUtilizationRates" =>
            LET d == calls[p][k].dev
                g == Reading("GetUtilizationRates.Gpu", d, <<>>)
                m == Reading("GetUtilizationRates.Memory", d, <<>>)
            IN  /\ Asked(p, "GetUtilizationRates", d) = {k}
                /\ IF calls[p][k].ret = SUCCESS
                   THEN LET pair == << Metric("util", g, <<Itoa(d[2]), "GPU">>, d),
                                       Metric("util", m, <<Itoa(d[2]), "MEMORY">>, d) >>
                            got == SentSeq(p, "util", d)
                        IN  /\ Len(got) <= 2
                            /\ got = SubSeq(pair, 1, Len(got))
                            /\ Settled(p) => got = pair
                   ELSE /\ SentSeq(p, "util", d) = << >>
                        /\ err[p] # nil
                        /\ \A j \in DOMAIN calls[p] : j > k => calls[p][j].op = "Shutdown"

\* C12 witness: a poll over two devices read (42, 17) from the first, sent
\* the two util metrics, and failed on the utilization query of the second.
C12_Witness ==
    \E p \in Polls :
        /\ pc[p] = "returned"
        /\ \E k \in Asked(p, "GetUtilizationRates", DeviceHandle(0)) :
              calls[p][k].ret = SUCCESS
        /\ \E k \in Asked(p, "GetUtilizationRates", DeviceHandle(1)) :
              calls[p][k].ret # SUCCESS
        /\ \E k \in Sent(p, "util", DeviceHandle(0)) :
              ch[p][k].val = 42 /\ ch[p][k].labels = <<"0", "GPU">>
        /\ \E k \in Sent(p, "util", DeviceHandle(0)) :
              ch[p][k].val = 17 /\ ch[p][k].labels = <<"0", "MEMORY">>

\* poll p called Init and Init did not succeed
InitFailed(p) ==
    /\ calls[p] # << >>
    /\ calls[p][1].op = "Init"
    /\ calls[p][1].ret # SUCCESS

\* C13: the first call of a poll is Init; when Init fails the poll has
\* returned the Init error with that one call made (no enumeration, no query,
\* no Shutdown, no second Init) and nothing sent.
C13_InitFailureReturnsAtOnce ==
    \A p \in Polls :
        /\ calls[p] # << >> => calls[p][1].op = "Init"
        /\ InitFailed(p) =>
              /\ Len(calls[p]) = 1
              /\ ch[p] = << >>
              /\ pc[p] = "returned"
              /\ err[p] = Errorf("unable to initialize NVML", calls[p][1].ret)

\* C13 witness: Init answered ERROR_UNKNOWN to a poll over a driver with
\* devices and every family enabled.
C13_Witness ==
    \E p \in Polls :
        /\ InitFailed(p)
        /\ calls[p][1].ret = ERROR_UNKNOWN
        /\ pc[p] = "returned"
        /\ driverCount > 0
        /\ enableNVGPUSysInfo /\ enableNVGPUInfo /\ enableNVGPUFan

\* the positions at which the enumeration of poll p failed
EnumerationFailures(p) ==
    {k \in DOMAIN calls[p] :
        /\ calls[p][k].op \in {"DeviceGetCount", "DeviceGetHandleByIndex"}
        /\ calls[p][k].ret # SUCCESS}

\* C14: when the device count or the handle of some index cannot be got, the
\* poll returns that error, sends nothing, asks no version or device query
\* (not of the devices already resolved either), and calls Shutdown, once, as
\* the call after the failed one.
C14_EnumerationFailureDiscardsAll ==
    \A p \in Polls : \A k \in EnumerationFailures(p) :
        /\ err[p] = Errorf(IF calls[p][k].op = "DeviceGetCount"
                           THEN "unable to get device count"
                           ELSE "unable to get device at index", calls[p][k].ret)
        /\ ch[p] = << >>
        /\ \A j \in DOMAIN calls[p] :
              /\ calls[p][j].dev = NoDevice
              /\ calls[p][j].op \in
                    {"Init", "DeviceGetCount", "DeviceGetHandleByIndex", "Shutdown"}
        /\ \/ pc[p] = "Shutdown" /\ Len(calls[p]) = k
           \/ /\ pc[p] = "returned"
              /\ Len(calls[p]) = k + 1
              /\ calls[p][k + 1].op = "Shutdown"

\* C14 witness: with the sysinfo and info families enabled, the handle of
\* index 0 was resolved, that of index 1 was not, and the poll returned.
C14_Witness ==
    \E p \in Polls :
        /\ enableNVGPUSysInfo /\ enableNVGPUInfo
        /\ pc[p] = "returned"
        /\ Len(frame[p].devices) = 1
        /\ \E k \in EnumerationFailures(p) :
              calls[p][k].op = "DeviceGetHandleByIndex" /\ calls[p][k].arg = <<1>>

\* poll p has called Shutdown and Shutdown did not succeed
ReleaseFailed(p) == \E k \in Shutdowns(p) : calls[p][k].ret # SUCCESS

\* C15: the Shutdown step leaves the result of the poll as it was, whatever
\* Shutdown answers; so a poll whose Shutdown failed returns nil when no call
\* before it failed hard, and else the error of the call that failed hard.
C15_ReleaseStatusIgnored ==
    /\ [](\A p \in Polls :
            (pc[p] = "returned" /\ ReleaseFailed(p)) =>
                /\ HardFailures(p) = {} => err[p] = nil
                /\ \A k \in HardFailures(p) :
                      /\ err[p] # nil
                      /\ err[p].ret = calls[p][k].ret
                      /\ err[p].msg # "failed to shutdown NVML")
    /\ [][\A p \in Polls :
            (pc[p] = "Shutdown" /\ pc'[p] = "returned") => err'[p] = err[p]]_vars

\* C15 witness: a poll failed on a query answered ERROR_UNKNOWN, its Shutdown
\* answered ERROR_NOT_SUPPORTED, and it returned the ERROR_UNKNOWN error.
C15_Witness ==
    \E p \in Polls :
        /\ pc[p] = "returned"
        /\ \E k \in HardFailures(p) : calls[p][k].ret = ERROR_UNKNOWN
        /\ \E k \in Shutdowns(p) : calls[p][k].ret = ERROR_NOT_SUPPORTED
        /\ err[p].ret = ERROR_UNKNOWN

\* the positions at which a version query of poll p did not succeed
SysInfoFailures(p) ==
    {k \in DOMAIN calls[p] : calls[p][k].op \in SysInfoQueries /\ calls[p][k].ret # SUCCESS}

\* the three version queries of poll p have all succeeded
SysInfoRead(p) ==
    \A op \in SysInfoQueries :
        \E k \in DOMAIN calls[p] : calls[p][k].op = op /\ calls[p][k].ret = SUCCESS

\* C16: a version query answered with any status but SUCCESS, NOT_SUPPORTED
\* included, fails the poll with nothing sent and only the Shutdown to follow;
\* when the three succeed the poll, its send done, has sent one sysinfo
\* metric, of value 1 with the three versions as labels, as its first metric;
\* no sysinfo metric is sent otherwise, no metric at all comes before it, and
\* each version query is made at most once.
C16_SysInfoAllOrNothing ==
    \A p \in Polls :
        /\ \A k \in SysInfoFailures(p) :
              /\ err[p] # nil
              /\ err[p].ret = calls[p][k].ret
              /\ ch[p] = << >>
              /\ \A j \in DOMAIN calls[p] : j > k => calls[p][j].op = "Shutdown"
        /\ (SysInfoRead(p) /\ Settled(p)) =>
              /\ Len(ch[p]) >= 1
              /\ ch[p][1] = Metric("sysinfo", 1,
                                <<TextReading("SystemGetDriverVersion", NoDevice),
                                  CudaVersionString(
                                      Reading("SystemGetCudaDriverVersion_v2", NoDevice, <<>>)),
                                  TextReading("SystemGetNVMLVersion", NoDevice)>>, NoDevice)
        /\ \A k \in DOMAIN ch[p] : ch[p][k].fam = "sysinfo" => (k = 1 /\ SysInfoRead(p))
        /\ (enableNVGPUSysInfo /\ ch[p] # << >>) => ch[p][1].fam = "sysinfo"
        /\ \A op \in SysInfoQueries : Cardinality(Asked(p, op, NoDevice)) <= 1

\* C16 witness: the driver and CUDA versions were read, the NVML version query
\* answered NOT_SUPPORTED, and the poll over two devices returned that error.
C16_Witness ==
    \E p \in Polls :
        /\ pc[p] = "returned"
        /\ driverCount = 2
        /\ \E k \in SysInfoFailures(p) :
              /\ calls[p][k].op = "SystemGetNVMLVersion"
              /\ calls[p][k].ret = ERROR_NOT_SUPPORTED
        /\ err[p].ret = ERROR_NOT_SUPPORTED

\* the labels of the clock metric that answers the call c: the device index,
\* the name of the domain and, for a clk metric, the name of the source
ClockLabels(c) ==
    IF c.op = "GetApplicationsClock"
    THEN <<Itoa(c.dev[2]), getClockTypeString(c.arg[1])>>
    ELSE <<Itoa(c.dev[2]), getClockTypeString(c.arg[1]), getClockIDString(c.arg[2])>>

\* the metrics poll p sent for the clock call c
ClockMetrics(p, c) ==
    {j \in Sent(p, IF c.op = "GetApplicationsClock" THEN "appclk" ELSE "clk", c.dev) :
        ch[p][j].labels = ClockLabels(c)}

\* the queries of the clock family
ClockQueries == {"GetApplicationsClock", "GetClock"}

\* the metric a clock query c answered SUCCESS is to yield: the value read,
\* under the names of the domain (and of the source)
ClockMetricOf(c) ==
    Metric(IF c.op = "GetApplicationsClock" THEN "appclk" ELSE "clk",
           Reading(c.op, c.dev, c.arg), ClockLabels(c), c.dev)

\* the clock queries of kind ops that poll p had answered SUCCESS, and the
\* metrics of the families fams it sent, both in order
ClockAnswered(p, ops) == SelectSeq(calls[p], LAMBDA c : c.op \in ops /\ c.ret = SUCCESS)
ClockSent(p, fams) == SelectSeq(ch[p], LAMBDA x : x.fam \in fams)

\* the metrics of fams poll p sent are, one for one and in order, those of
\* its queries of ops answered SUCCESS: none is sent twice, none is sent for
\* a query answered otherwise, and none is missing but, while p is in its
\* send, that of the last query
SentAsAnswered(p, ops, fams) ==
    LET want == [i \in DOMAIN ClockAnswered(p, ops) |->
                    ClockMetricOf(ClockAnswered(p, ops)[i])]
        got == ClockSent(p, fams)
    IN  /\ Len(got) <= Len(want)
        /\ Len(got) >= Len(want) - 1
        /\ got = SubSeq(want, 1, Len(got))
        /\ Settled(p) => got = want

\* the clock queries poll p made, as (device, function, parameters)
ClockCalls(p) ==
    {<<calls[p][k].dev, calls[p][k].op, calls[p][k].arg>> :
        k \in {j \in DOMAIN calls[p] : calls[p][j].op \in ClockQueries}}

\* C17: every clock query, of a domain or of a (domain, source) pair, is made
\* at most once per device. Answered NOT_SUPPORTED it yields no metric and the
\* poll goes on to the next query; answered SUCCESS it yields exactly one
\* metric, of the value read, labelled with the domain (and source) names, and
\* the poll goes on; answered otherwise it yields no metric and fails the
\* poll, with only the Shutdown to follow.
C17_ClockSoftSkip ==
    \A p \in Polls :
        /\ SentAsAnswered(p, ClockQueries, {"appclk", "clk"})
        /\ Cardinality(ClockCalls(p)) =
              Len(SelectSeq(calls[p], LAMBDA c : c.op \in ClockQueries))
        /\ \A k \in DOMAIN calls[p] :
              LET c == calls[p][k]
              IN  c.op \in ClockQueries =>
                      IF c.ret \in {SUCCESS, ERROR_NOT_SUPPORTED}
                      THEN IF k = Len(calls[p])
                           THEN err[p] = nil /\ pc[p] \notin {"Shutdown", "returned"}
                           ELSE /\ calls[p][k + 1].op # "Shutdown"
                                /\ calls[p][k + 1].dev = c.dev
                      ELSE /\ err[p] # nil
                           /\ err[p].ret = c.ret
                           /\ Len(calls[p]) <= k + 1
                           /\ k < Len(calls[p]) => calls[p][k + 1].op = "Shutdown"

\* C17 witness: in one poll an applications clock was read, the clock of a
\* (domain, source) pair was answered NOT_SUPPORTED and passed over, the clock
\* of the pair (SM, CUSTOMER_BOOST_MAX) was read and sent under its names, and
\* a clock query answered ERROR_UNKNOWN failed the poll.
C17_Witness ==
    \E p \in Polls :
        /\ pc[p] = "returned"
        /\ \E k \in DOMAIN calls[p] :
              calls[p][k].op = "GetApplicationsClock" /\ calls[p][k].ret = SUCCESS
        /\ \E k \in DOMAIN calls[p] :
              calls[p][k].op = "GetClock" /\ calls[p][k].ret = ERROR_NOT_SUPPORTED
        /\ \E k \in DOMAIN calls[p] :
              /\ calls[p][k].op = "GetClock"
              /\ calls[p][k].ret = SUCCESS
              /\ calls[p][k].arg = <<CLOCK_SM, CLOCK_ID_CUSTOMER_BOOST_MAX>>
              /\ ClockMetrics(p, calls[p][k]) # {}
        /\ \E k \in DOMAIN calls[p] :
              calls[p][k].op = "GetClock" /\ calls[p][k].ret = ERROR_UNKNOWN

\* the positions at which poll p was answered NOT_SUPPORTED by a call that is
\* neither one of the three soft-skip queries nor the Shutdown
UnsupportedElsewhere(p) ==
    {k \in DOMAIN calls[p] :
        /\ calls[p][k].ret = ERROR_NOT_SUPPORTED
        /\ calls[p][k].op \notin SoftSkipQueries \cup {"Shutdown"}}

\* the positions at which a soft-skip query of poll p was answered NOT_SUPPORTED
UnsupportedSkipped(p) ==
    {k \in DOMAIN calls[p] :
        calls[p][k].ret = ERROR_NOT_SUPPORTED /\ calls[p][k].op \in SoftSkipQueries}

\* the poll p makes a call in this step
Calls(p) == Len(calls'[p]) = Len(calls[p]) + 1

\* C18: NOT_SUPPORTED from any call but the applications-clock, clock and
\* enforced-limit queries fails the poll as any error does: the step sends
\* nothing, the poll returns an error of that status, and only the Shutdown
\* follows. NOT_SUPPORTED from one of the three lets the poll go on.
C18_UnsupportedHardElsewhere ==
    /\ [](\A p \in Polls :
            /\ \A k \in UnsupportedElsewhere(p) :
                  /\ err[p] # nil
                  /\ err[p].ret = ERROR_NOT_SUPPORTED
                  /\ pc[p] \in {"Shutdown", "returned"}
                  /\ \A j \in DOMAIN calls[p] : j > k => calls[p][j].op = "Shutdown"
            /\ \A k \in UnsupportedSkipped(p) :
                  IF k = Len(calls[p])
                  THEN err[p] = nil /\ pc[p] \notin {"Shutdown", "returned"}
                  ELSE calls[p][k + 1].op # "Shutdown")
    /\ [][\A p \in Polls :
            (Calls(p) /\ Len(calls'[p]) \in UnsupportedElsewhere(p)') => ch'[p] = ch[p]]_vars

\* C18 witness: the enforced limit of the first device was answered
\* NOT_SUPPORTED and passed over, the temperature of the second device was
\* answered NOT_SUPPORTED, and the poll returned that error.
C18_Witness ==
    \E p \in Polls :
        /\ pc[p] = "returned"
        /\ \E k \in UnsupportedSkipped(p) :
              calls[p][k].op = "GetEnforcedPowerLimit" /\ calls[p][k].dev = DeviceHandle(0)
        /\ \E k \in UnsupportedElsewhere(p) :
              calls[p][k].op = "GetTemperature" /\ calls[p][k].dev = DeviceHandle(1)
        /\ err[p].ret = ERROR_NOT_SUPPORTED

\* the calls poll p made, as (NVML function, device, parameters)
CallsMade(p) ==
    {<<calls[p][k].op, calls[p][k].dev, calls[p][k].arg>> : k \in DOMAIN calls[p]}

\* C19: a poll makes no call twice: Init once, and every query at most once
\* per device and parameters, whatever it was answered; so its calls are as
\* many as the distinct (function, device, parameters) among them.
C19_NoRetries ==
    \A p \in Polls :
        /\ calls[p] # << >> =>
              Cardinality({k \in DOMAIN calls[p] : calls[p][k].op = "Init"}) = 1
        /\ Cardinality(CallsMade(p)) = Len(calls[p])

\* C19 witness: the power query of the first device failed while the driver
\* had a fault left, and the poll returned with that query made once.
C19_Witness ==
    \E p \in Polls :
        /\ pc[p] = "returned"
        /\ \E k \in Asked(p, "GetPowerUsage", DeviceHandle(0)) :
              calls[p][k].ret = ERROR_UNKNOWN
        /\ Cardinality(Asked(p, "GetPowerUsage", DeviceHandle(0))) = 1
        /\ \A k \in Shutdowns(p) : calls[p][k].ret = SUCCESS

\* the positions at which a call of poll p other than the Shutdown, Init
\* included, was answered with a hard status
HardCalls(p) ==
    {k \in DOMAIN calls[p] : calls[p][k].op # "Shutdown" /\ HardAnswer(calls[p][k])}

\* the text of the error Update returns when the call op fails
ErrorText(op) ==
    CASE op = "Init" -> "unable to initialize NVML"
      [] op = "DeviceGetCount" -> "unable to get device count"
      [] op = "DeviceGetHandleByIndex" -> "unable to get device at index"
      [] op = "SystemGetDriverVersion" -> "unable to Get NVIDIA System Driver Version"
      [] op = "SystemGetCudaDriverVersion_v2" -> "unable to Get NVIDIA CUDA Driver Version"
      [] op = "SystemGetNVMLVersion" -> "unable to Get NVIDIA NVML Version"
      [] op = "GetUUID" -> "unable to get GPU UUID"
      [] op = "GetName" -> "unable to get GPU NAME"
      [] op = "GetBusType" -> "unable to get GPU BUS Type"
      [] op = "GetNumFans" -> "unable to get GPU Fan info"
      [] op = "GetMinMaxFanSpeed" -> "unable to get GPU Fan Min/Max Speed"
      [] op = "GetFanSpeed_v2" -> "unable to get GPU Fan Speed"
      [] op = "GetApplicationsClock" -> "unable to get GPU Applications Clock Info"
      [] op = "GetClock" -> "unable to get GPU Clock Info"
      [] op = "GetComputeMode" -> "unable to get GPU Compute Mode Info"
      [] op = "GetPerformanceState" -> "unable to get GPU Performance State Info"
      [] op = "GetPersistenceMode" -> "unable to get GPU Persistence Mode Info"
      [] op = "GetUtilizationRates" -> "unable to get GPU Utilization Info"
      [] op = "GetTemperature" -> "unable to get GPU Temperature Sensor Value"
      [] op = "GetPowerUsage" -> "unable to get GPU Power Usage Value"
      [] op = "GetEnforcedPowerLimit" -> "unable to get GPU Power Enforced Limitation Value"
      [] op = "GetMemoryInfo" -> "unable to get GPU Memory Info"

\* the smallest element of a non-empty set of positions
First(S) == CHOOSE k \in S : \A j \in S : k <= j

\* C20: the result of a poll is an error exactly when one of its calls other
\* than the Shutdown was answered with a hard status, and then it is the
\* error of the first such call; a poll whose calls were all answered SUCCESS
\* or a skipped NOT_SUPPORTED returns nil.
C20_ErrorIffHardStatus ==
    \A p \in Polls :
        /\ err[p] # nil <=> HardCalls(p) # {}
        /\ HardCalls(p) # {} =>
              LET c == calls[p][First(HardCalls(p))]
              IN  err[p] = Errorf(ErrorText(c.op), c.ret)
        /\ (pc[p] = "returned" /\ HardCalls(p) = {}) => err[p] = nil

\* C20 witness: a poll passed over a clock answered NOT_SUPPORTED, failed on a
\* later query answered ERROR_UNKNOWN, had its Shutdown fail too, and
\* returned the error of the query.
C20_Witness ==
    \E p \in Polls :
        /\ pc[p] = "returned"
        /\ UnsupportedSkipped(p) # {}
        /\ \E k \in HardCalls(p) :
              /\ calls[p][k].ret = ERROR_UNKNOWN
              /\ calls[p][k].op = "GetMemoryInfo"
              /\ \E j \in UnsupportedSkipped(p) : j < k
        /\ ReleaseFailed(p)
        /\ err[p] = Errorf("unable to get GPU Memory Info", ERROR_UNKNOWN)

\* the place of a family in the order device-info, fan, clock, compute mode,
\* performance state, persistence mode, utilization, temperature, power,
\* memory; x is the NVML function of a query or the family of a metric
FamilyRank(x) ==
    CASE x \in GpuInfoQueries \cup {"gpuinfo"} -> 1
      [] x \in FanQueries \cup FanFamilies -> 2
      [] x \in {"GetApplicationsClock", "GetClock", "appclk", "clk"} -> 3
      [] x \in {"GetComputeMode", "compute_mode"} -> 4
      [] x \in {"GetPerformanceState", "perf"} -> 5
      [] x \in {"GetPersistenceMode", "persis_mode"} -> 6
      [] x \in {"GetUtilizationRates", "util"} -> 7
      [] x \in {"GetTemperature", "temp"} -> 8
      [] x \in {"GetPowerUsage", "GetEnforcedPowerLimit",
                "power_usage", "power_enforce_limit"} -> 9
      [] x \in {"GetMemoryInfo", "mem_total", "mem_free", "mem_used"} -> 10
      [] OTHER -> 0

\* (device i, family a) is not after (device j, family b)
NotAfter(i, a, j, b) == i < j \/ (i = j /\ a <= b)

\* the device queries of poll p, and its per-device metrics, in order
DeviceCalls(p) == SelectSeq(calls[p], LAMBDA c : c.dev # NoDevice)
DeviceMetrics(p) == SelectSeq(ch[p], LAMBDA x : x.dev # NoDevice)

\* C21: the device queries of a poll come in the order of the device index
\* and, for one device, of the families; so do its per-device metrics (each
\* is not after the next one, hence not after any later one); and a metric is
\* sent after a query of its own device and family and before the next
\* query, so the queries and metrics of a device all precede those of the
\* devices after it.
C21_DeviceAndFamilyOrder ==
    /\ [](\A p \in Polls :
            LET q == DeviceCalls(p)
                m == DeviceMetrics(p)
            IN  /\ \A k \in 1 .. Len(q) - 1 :
                      NotAfter(q[k].dev[2], FamilyRank(q[k].op),
                               q[k + 1].dev[2], FamilyRank(q[k + 1].op))
                /\ \A k \in 1 .. Len(m) - 1 :
                      NotAfter(m[k].dev[2], FamilyRank(m[k].fam),
                               m[k + 1].dev[2], FamilyRank(m[k + 1].fam))
                /\ \A k \in DOMAIN q : FamilyRank(q[k].op) > 0
                /\ \A k \in DOMAIN m : FamilyRank(m[k].fam) > 0)
    /\ [][\A p \in Polls : \A k \in (Len(ch[p]) + 1) .. Len(ch'[p]) :
            LET x == ch'[p][k]
                c == calls'[p][Len(calls'[p])]
            IN  x.dev # NoDevice =>
                    /\ calls'[p] = calls[p]
                    /\ x.dev = c.dev
                    /\ FamilyRank(x.fam) = FamilyRank(c.op)]_vars

\* the families of which poll p sent a metric for device d
FamiliesSent(p, d) == {FamilyRank(ch[p][k].fam) : k \in {j \in DOMAIN ch[p] : ch[p][j].dev = d}}

\* C21 witness: a poll returned nil after it sent metrics of all ten families
\* for each of two devices.
C21_Witness ==
    \E p \in Polls :
        /\ pc[p] = "returned"
        /\ err[p] = nil
        /\ FamiliesSent(p, DeviceHandle(0)) = 1 .. 10
        /\ FamiliesSent(p, DeviceHandle(1)) = 1 .. 10

\* the statuses poll p was answered with, in order
Answered(p) == [k \in DOMAIN calls[p] |-> calls[p][k].ret]

\* s is a prefix of t
Prefix(s, t) == Len(s) <= Len(t) /\ SubSeq(t, 1, Len(s)) = s

\* C22: the second of two polls run one after the other, as long as it is
\* answered what the first was answered, makes the calls the first made and
\* sends the metrics the first sent; when both have returned on the same
\* answers, with the same calls, metrics and result, whether nil or an error.
C22_PollsCarryNoState ==
    (pc[1] = "returned" /\ Prefix(Answered(2), Answered(1))) =>
        /\ Prefix(calls[2], calls[1])
        /\ Prefix(ch[2], ch[1])
        /\ (pc[2] = "returned" /\ Len(calls[2]) = Len(calls[1])) =>
              (ch[2] = ch[1] /\ err[2] = err[1])
        /\ (pc[2] = "returned" /\ calls[2] # << >>) => Len(calls[2]) = Len(calls[1])

\* C22 witness: the first poll sent metrics and failed on a query, the second
\* was answered the same and returned the same error with the same metrics.
C22_Witness ==
    /\ pc[1] = "returned"
    /\ pc[2] = "returned"
    /\ HardFailures(1) # {}
    /\ ch[1] # << >>
    /\ Answered(2) = Answered(1)
    /\ calls[2] = calls[1]
    /\ ch[2] = ch[1]
    /\ err[2] = err[1]

\* poll p has gone through the memory query of every device the driver has
AllDevicesDone(p) ==
    Cardinality({k \in DOMAIN calls[p] :
        calls[p][k].op = "GetMemoryInfo" /\ calls[p][k].ret = SUCCESS}) = driverCount

\* C23: a started poll returns in the end, for any device and fan count:
\* with nil once the last device is done, or with an error after a hard
\* failure.
C23_PollTerminates ==
    \A p \in Polls :
        (pc[p] = "Init") ~>
            /\ pc[p] = "returned"
            /\ \/ err[p] = nil /\ AllDevicesDone(p)
               \/ err[p] # nil /\ HardCalls(p) # {}

\* C23 witness: a poll over the most devices with the most fans, with every
\* family enabled, has returned nil.
C23_Witness ==
    \E p \in Polls :
        /\ pc[p] = "returned"
        /\ err[p] = nil
        /\ variant = "full"
        /\ enableNVGPUSysInfo /\ enableNVGPUInfo /\ enableNVGPUFan
        /\ driverCount = MaxDevices
        /\ driverFans = MaxFans
        /\ AllDevicesDone(p)

\* the positions at which an applications-clock query of poll p was answered
\* SUCCESS or NOT_SUPPORTED
AppClockPassed(p) ==
    {k \in DOMAIN calls[p] :
        /\ calls[p][k].op = "GetApplicationsClock"
        /\ calls[p][k].ret \in {SUCCESS, ERROR_NOT_SUPPORTED}}

\* C24: after the applications-clock query of a domain t, answered SUCCESS or
\* NOT_SUPPORTED alike, the poll asks the clock of (t, source) for every
\* source in turn, as long as none of these fails hard; and the clk metrics it
\* sends are those of the clock queries answered SUCCESS, one each.
C24_ClockIndependentOfAppClock ==
    \A p \in Polls :
        /\ SentAsAnswered(p, {"GetClock"}, {"clk"})
        /\ \A k \in AppClockPassed(p) :
              LET d == calls[p][k].dev
                  t == calls[p][k].arg[1]
              IN  \A tt \in 0 .. CLOCK_ID_COUNT - 1 :
                      (\A i \in 1 .. tt :
                          k + i <= Len(calls[p]) /\ ~HardAnswer(calls[p][k + i])) =>
                          IF k + tt = Len(calls[p])
                          THEN /\ pc[p] = "GetClock"
                               /\ frame[p].t = t
                               /\ frame[p].tt = tt
                               /\ err[p] = nil
                          ELSE /\ calls[p][k + tt + 1].op = "GetClock"
                               /\ calls[p][k + tt + 1].dev = d
                               /\ calls[p][k + tt + 1].arg = <<t, tt>>

\* C24 witness: the applications clock of the SM domain was answered
\* NOT_SUPPORTED, and the poll returned nil with a clk metric sent for each of
\* the four sources of that domain.
C24_Witness ==
    \E p \in Polls :
        /\ pc[p] = "returned"
        /\ err[p] = nil
        /\ \E k \in AppClockPassed(p) :
              /\ calls[p][k].ret = ERROR_NOT_SUPPORTED
              /\ calls[p][k].arg = <<CLOCK_SM>>
              /\ calls[p][k].dev = DeviceHandle(0)
        /\ \A tt \in 0 .. CLOCK_ID_COUNT - 1 :
              \E j \in Sent(p, "clk", DeviceHandle(0)) :
                  ch[p][j].labels = <<"0", getClockTypeString(CLOCK_SM), getClockIDString(tt)>>

====
